---------------------------- MODULE Spec2Model ----------------------------
(***************************************************************************)
(* A model of the edge lexer: the CharBucket whitespace buffer, the        *)
(* TagStatement and MustacheStatement state machines and the Tokenizer     *)
(* that drives them line by line.                                          *)
(*                                                                         *)
(* A JavaScript string is modelled as a sequence of one-character strings, *)
(* so that trimming, splitting, joining and the character loops of the     *)
(* statements are computed as the code computes them.                      *)
(***************************************************************************)
EXTENDS Integers, Sequences, FiniteSets, TLC

VARIABLES
    template,           \* Tokenizer.template: the text handed to the constructor
    lines,              \* parse(): the local `lines`, the lines not yet shifted
    line,               \* Tokenizer.line
    tokens,             \* Tokenizer.tokens
    openedTags,         \* Tokenizer.openedTags
    blockStatement,     \* Tokenizer.blockStatement: <<>> is null, <<s>> an object
    mustacheStatement,  \* Tokenizer.mustacheStatement: <<>> is null, <<s>> an object
    error,              \* the exception that left the running call, or NoError
    pc,                 \* the position of the caller
    charBucket,         \* a CharBucket a caller feeds: <<>> is none, <<b>> the object
    got                 \* what the last call of get() on it returned: <<>> or <<s>>

vars == <<template, lines, line, tokens, openedTags, blockStatement,
          mustacheStatement, error, pc, charBucket, got>>

-----------------------------------------------------------------------------
(* Strings and characters *)

EOL == "\n"

NoError == "none"

\* new Error(`Unexpected token {${line}}. Write in a new line`) and
\* new Error(`Unexpected token {${line}}`)
ErrUnexpectedToken == "Unexpected token"

\* new Error(`Unexpected token {${chars.join('')}}. Write in a new line`)
ErrNewLine == "Write in a new line"

\* new Error(`Unexpected token ${char}. Wrap statement inside ()`)
ErrWrap == "Wrap statement inside ()"

\* reading a property of null or undefined
ErrTypeError == "TypeError"

\* is-whitespace-character: /\s/ on one character ('' is no whitespace)
whitespace(char) == char \in {" ", "\t", "\n"}

\* the class \w of the regular expressions
WordChars ==
    {"a","b","c","d","e","f","g","h","i","j","k","l","m","n","o","p","q","r",
     "s","t","u","v","w","x","y","z",
     "A","B","C","D","E","F","G","H","I","J","K","L","M","N","O","P","Q","R",
     "S","T","U","V","W","X","Y","Z",
     "0","1","2","3","4","5","6","7","8","9","_"}

RECURSIVE trimLeft(_)
trimLeft(s) ==
    IF s # <<>> /\ whitespace(Head(s)) THEN trimLeft(Tail(s)) ELSE s

RECURSIVE trimRight(_)
trimRight(s) ==
    IF s # <<>> /\ whitespace(s[Len(s)])
    THEN trimRight(SubSeq(s, 1, Len(s) - 1)) ELSE s

\* String.prototype.trim
trim(s) == trimRight(trimLeft(s))

\* String.prototype.split(EOL): the pieces between the line breaks; the
\* empty string gives one empty piece
RECURSIVE splitFrom(_, _, _)
splitFrom(s, cur, acc) ==
    IF s = <<>> THEN Append(acc, cur)
    ELSE IF Head(s) = EOL THEN splitFrom(Tail(s), <<>>, Append(acc, cur))
    ELSE splitFrom(Tail(s), Append(cur, Head(s)), acc)

split(s) == splitFrom(s, <<>>, <<>>)

\* the index of the first occurrence of `{{` in s, 0 when there is none
RECURSIVE indexOfMustache(_, _)
indexOfMustache(s, i) ==
    IF i + 1 > Len(s) THEN 0
    ELSE IF s[i] = "{" /\ s[i + 1] = "{" THEN i
    ELSE indexOfMustache(s, i + 1)

\* MUSTACHE_REGEX.test(text)
MUSTACHE_REGEX(text) == indexOfMustache(text, 1) # 0

-----------------------------------------------------------------------------
(* CharBucket *)

NewCharBucket(mode) == [whitespace |-> mode, chars |-> <<>>, lastChar |-> ""]

CharBucket_get(bucket) == bucket.chars

\* the object after get(): the method assigns nothing
CharBucket_afterGet(b) == b

\* the last character is not remembered
CharBucket_feed_forgetful(b, char) ==
    IF b.whitespace = "CONTROLLED" THEN
        IF whitespace(char) /\ whitespace(b.lastChar) THEN b
        ELSE [b EXCEPT !.chars = Append(@, char)]
    ELSE IF b.whitespace = "NONE" THEN
        IF whitespace(char) THEN b
        ELSE [b EXCEPT !.chars = Append(@, char)]
    ELSE [b EXCEPT !.chars = Append(@, char)]

\* the policy NONE keeps the first whitespace character fed
CharBucket_feed_noneKeepsOne(b, char) ==
    IF b.whitespace = "CONTROLLED" THEN
        IF whitespace(char) /\ whitespace(b.lastChar) THEN b
        ELSE [b EXCEPT !.chars = Append(@, char), !.lastChar = char]
    ELSE IF b.whitespace = "NONE" THEN
        IF whitespace(char) /\ b.lastChar # "" THEN b
        ELSE [b EXCEPT !.chars = Append(@, char), !.lastChar = char]
    ELSE [b EXCEPT !.chars = Append(@, char)]

CharBucket_feed(bucket, char) ==
    IF bucket.whitespace = "CONTROLLED" THEN
        IF whitespace(char) /\ whitespace(bucket.lastChar) THEN bucket
        ELSE [bucket EXCEPT !.chars = Append(@, char), !.lastChar = char]
    ELSE IF bucket.whitespace = "NONE" THEN
        IF whitespace(char) THEN bucket
        ELSE [bucket EXCEPT !.chars = Append(@, char)]
    ELSE [bucket EXCEPT !.chars = Append(@, char)]

-----------------------------------------------------------------------------
(* TagStatement *)

\* the argument is collected with no whitespace at all
NewTagStatement_stripped(startPosition, seekable) ==
    [ startPosition  |-> startPosition,
      seekable       |-> seekable,
      started        |-> FALSE,
      ended          |-> FALSE,
      props          |-> [name |-> <<>>, jsArg |-> <<>>, raw |-> <<>>],
      internalProps  |-> << [name  |-> NewCharBucket("NONE"),
                             jsArg |-> NewCharBucket("NONE")] >>,
      currentProp    |-> "name",
      internalParens |-> 0 ]

NewTagStatement(startPosition, seekable) ==
    [ startPosition  |-> startPosition,
      seekable       |-> seekable,
      started        |-> FALSE,
      ended          |-> FALSE,
      props          |-> [name |-> <<>>, jsArg |-> <<>>, raw |-> <<>>],
      internalProps  |-> << [name  |-> NewCharBucket("NONE"),
                             jsArg |-> NewCharBucket("CONTROLLED")] >>,
      currentProp    |-> "name",
      internalParens |-> 0 ]

Tag_seeking(st) == ~st.started \/ ~st.ended

Tag_isStartOfStatement(st, char) == char = "(" /\ st.currentProp = "name"

\* a `)` ends only a statement that has started
Tag_isEndOfStatement_started(st, char) ==
    char = ")" /\ st.internalParens = 0 /\ st.started

Tag_isEndOfStatement(st, char) == char = ")" /\ st.internalParens = 0

\* this.props[this.currentProp] = this.internalProps[this.currentProp].get()
Tag_setProp(st) ==
    [st EXCEPT !.props[st.currentProp] =
                   CharBucket_get(st.internalProps[1][st.currentProp])]

Tag_startStatement(st) ==
    [Tag_setProp(st) EXCEPT !.currentProp = "jsArg", !.started = TRUE]

\* the statement ends whether it has started or not
Tag_endStatement_unchecked(st) ==
    [st  |-> [Tag_setProp([st EXCEPT !.ended = TRUE])
                  EXCEPT !.internalProps = <<>>],
     err |-> NoError]

Tag_endStatement(st) ==
    IF ~st.started THEN [st |-> st, err |-> ErrWrap]
    ELSE [st  |-> [Tag_setProp([st EXCEPT !.ended = TRUE])
                       EXCEPT !.internalProps = <<>>],
          err |-> NoError]

\* the paren counter is not changed on the way
Tag_feedChar_uncounted(st, char) ==
    [st EXCEPT !.internalProps[1][st.currentProp] = CharBucket_feed(@, char)]

Tag_feedChar(st, char) ==
    LET parens == IF char = "(" THEN st.internalParens + 1
                  ELSE IF char = ")" THEN st.internalParens - 1
                  ELSE st.internalParens
    IN  [st EXCEPT !.internalParens = parens,
                   !.internalProps[1][st.currentProp] = CharBucket_feed(@, char)]

\* throws when chars other than whitespace are left
Tag_ensureNoMoreCharsToFeed_nonBlank(chars) ==
    IF trim(chars) # <<>> THEN ErrNewLine ELSE NoError

\* throws when chars are left
Tag_ensureNoMoreCharsToFeed(chars) ==
    IF Len(chars) > 0 THEN ErrNewLine ELSE NoError

Tag_recordRaw(st, text) ==
    IF st.props.raw = <<>> THEN [st EXCEPT !.props.raw = @ \o text]
    ELSE [st EXCEPT !.props.raw = @ \o <<EOL>> \o text]

\* the name is the line as it is
Tag_feedNonSeekable_untrimmed(st, text) ==
    [st EXCEPT !.props.name = text, !.ended = TRUE, !.started = TRUE,
               !.internalProps = <<>>]

Tag_feedNonSeekable(st, text) ==
    [st EXCEPT !.props.name = trim(text), !.ended = TRUE, !.started = TRUE,
               !.internalProps = <<>>]

\* the while loop of feedSeekable
RECURSIVE Tag_feedSeekableLoop(_, _)
Tag_feedSeekableLoop(st, chars) ==
    IF chars = <<>> THEN [st |-> st, err |-> NoError]
    ELSE LET char == Head(chars)
             rest == Tail(chars)
         IN  IF Tag_isStartOfStatement(st, char)
             THEN Tag_feedSeekableLoop(Tag_startStatement(st), rest)
             ELSE IF Tag_isEndOfStatement(st, char)
             THEN IF Tag_ensureNoMoreCharsToFeed(rest) # NoError
                  THEN [st |-> st, err |-> Tag_ensureNoMoreCharsToFeed(rest)]
                  ELSE Tag_endStatement(st)
             ELSE Tag_feedSeekableLoop(Tag_feedChar(st, char), rest)

\* the end of feedSeekable, r being what the loop left
Tag_feedSeekableEnd(r) ==
    IF r.err # NoError THEN r
    ELSE IF ~Tag_seeking(r.st) THEN [r EXCEPT !.st.internalProps = <<>>]
    ELSE r

Tag_feedSeekable(st, text) == Tag_feedSeekableEnd(Tag_feedSeekableLoop(st, text))

\* feed after recordRaw
Tag_feedRecorded(st, text) ==
    IF ~st.seekable
    THEN [st |-> Tag_feedNonSeekable(st, text), err |-> NoError]
    ELSE Tag_feedSeekable(st, text)

\* the line break before a line that goes on is fed with the line
Tag_feed_withBreak(st, text) ==
    IF st.ended THEN [st |-> st, err |-> ErrUnexpectedToken]
    ELSE Tag_feedRecorded(Tag_recordRaw(st, text),
                          IF st.props.raw = <<>> THEN text ELSE <<EOL>> \o text)

\* the line is recorded before the ended flag is looked at
Tag_feed_recordFirst(st, text) ==
    IF st.ended THEN [st |-> Tag_recordRaw(st, text), err |-> ErrUnexpectedToken]
    ELSE Tag_feedRecorded(Tag_recordRaw(st, text), text)

\* TagStatement.feed: the statement after the call and the error thrown
Tag_feed(st, text) ==
    IF st.ended THEN [st |-> st, err |-> ErrUnexpectedToken]
    ELSE Tag_feedRecorded(Tag_recordRaw(st, text), text)

-----------------------------------------------------------------------------
(* MustacheStatement *)

NewMustacheStatement(startPosition) ==
    [ startPosition  |-> startPosition,
      started        |-> FALSE,
      ended          |-> FALSE,
      props          |-> [name |-> <<>>, jsArg |-> <<>>, raw |-> <<>>,
                          textLeft |-> <<>>, textRight |-> <<>>],
      internalProps  |-> << [jsArg     |-> NewCharBucket("CONTROLLED"),
                             textLeft  |-> NewCharBucket("ALL"),
                             textRight |-> NewCharBucket("ALL")] >>,
      internalBraces |-> 0,
      currentProp    |-> "textLeft" ]

Mustache_seeking(st) == st.started /\ ~st.ended

\* the names props.name takes
MUSTACHE == <<"m","u","s","t","a","c","h","e">>

EMUSTACHE == <<"e","m","u","s","t","a","c","h","e">>

\* getName: name is <<>> for null; chars is the array after the shifts
Mustache_getName(st, chars, char) ==
    IF char # "{" \/ Len(chars) = 0
    THEN [st |-> st, chars |-> chars, name |-> <<>>]
    ELSE IF chars[1] # "{"
    THEN [st |-> st, chars |-> chars, name |-> <<>>]
    ELSE IF Len(chars) = 1
    THEN [st    |-> [st EXCEPT !.props.raw = @ \o <<"{", "{">>],
          chars |-> Tail(chars),
          name  |-> MUSTACHE]
    ELSE IF chars[2] # "{"
    THEN [st    |-> [st EXCEPT !.props.raw = @ \o <<"{", "{">>],
          chars |-> Tail(chars),
          name  |-> MUSTACHE]
    ELSE [st    |-> [st EXCEPT !.props.raw = @ \o <<"{", "{">> \o <<"{">>],
          chars |-> Tail(Tail(chars)),
          name  |-> EMUSTACHE]

\* isClosing: closing is the boolean returned
Mustache_isClosing(st, chars, char) ==
    IF char # "}" \/ st.internalBraces # 0
    THEN [st |-> st, chars |-> chars, closing |-> FALSE]
    ELSE IF st.props.name = EMUSTACHE /\ Len(chars) >= 2
    THEN IF chars[1] = "}" /\ chars[2] = "}"
         THEN [st      |-> [st EXCEPT !.props.raw = @ \o <<"}", "}">>],
               chars   |-> Tail(Tail(chars)),
               closing |-> TRUE]
         ELSE [st |-> st, chars |-> chars, closing |-> FALSE]
    ELSE IF st.props.name = MUSTACHE /\ Len(chars) >= 1
    THEN IF chars[1] = "}"
         THEN [st      |-> [st EXCEPT !.props.raw = @ \o <<"}">>],
               chars   |-> Tail(chars),
               closing |-> TRUE]
         ELSE [st |-> st, chars |-> chars, closing |-> FALSE]
    ELSE [st |-> st, chars |-> chars, closing |-> FALSE]

\* setProp: reading internalProps when it is null is a TypeError
Mustache_setProp(st) ==
    IF st.internalProps = <<>> THEN [st |-> st, err |-> ErrTypeError]
    ELSE [st  |-> [st EXCEPT !.props[st.currentProp] =
                       CharBucket_get(st.internalProps[1][st.currentProp])],
          err |-> NoError]

\* processChar: if (this.currentProp === 'jsArg') this.props.raw += char
Mustache_storeRaw(st, char) ==
    IF st.currentProp = "jsArg"
    THEN [st EXCEPT !.props.raw = Append(@, char)] ELSE st

\* processChar: if (!this.started) name = this.getName(chars, charCode)
Mustache_findName(st, chars, char) ==
    IF ~st.started THEN Mustache_getName(st, chars, char)
    ELSE [st |-> st, chars |-> chars, name |-> <<>>]

\* processChar, a name was found: sp is what setProp left
Mustache_start(sp, chars) ==
    IF sp.err # NoError THEN [st |-> sp.st, chars |-> chars, err |-> sp.err]
    ELSE [st    |-> [sp.st EXCEPT !.currentProp = "jsArg"],
          chars |-> chars,
          err   |-> NoError]

\* processChar: this.started && !this.ended && this.isClosing(chars, charCode)
Mustache_findClosing(st, chars, char) ==
    IF st.started /\ ~st.ended THEN Mustache_isClosing(st, chars, char)
    ELSE [st |-> st, chars |-> chars, closing |-> FALSE]

\* processChar, the closing was found: sp is what setProp left
Mustache_end(sp, chars) ==
    IF sp.err # NoError THEN [st |-> sp.st, chars |-> chars, err |-> sp.err]
    ELSE [st    |-> [sp.st EXCEPT !.currentProp = "textRight", !.ended = TRUE],
          chars |-> chars,
          err   |-> NoError]

\* processChar: the brace counter
Mustache_countBrace(st, char) ==
    IF char = "{" THEN [st EXCEPT !.internalBraces = @ + 1]
    ELSE IF char = "}" THEN [st EXCEPT !.internalBraces = @ - 1]
    ELSE st

\* processChar: this.internalProps[this.currentProp].feed(char)
Mustache_feedBucket(st, chars, char) ==
    IF st.internalProps = <<>>
    THEN [st |-> st, chars |-> chars, err |-> ErrTypeError]
    ELSE [st    |-> [st EXCEPT !.internalProps[1][st.currentProp] =
                                   CharBucket_feed(@, char)],
          chars |-> chars,
          err   |-> NoError]

\* processChar, no name was found: cl is what the closing test left
Mustache_afterClosing(cl, char) ==
    IF cl.closing THEN Mustache_end(Mustache_setProp(cl.st), cl.chars)
    ELSE Mustache_feedBucket(Mustache_countBrace(cl.st, char), cl.chars, char)

\* processChar, gn being what the search of a name left
Mustache_afterName(gn, char) ==
    IF gn.name # <<>>
    THEN Mustache_start(
             Mustache_setProp([gn.st EXCEPT !.props.name = gn.name,
                                            !.started = TRUE]),
             gn.chars)
    ELSE Mustache_afterClosing(Mustache_findClosing(gn.st, gn.chars, char), char)

\* processChar: the statement, the array after the shifts and the error thrown
Mustache_processChar(st, chars, char) ==
    Mustache_afterName(
        Mustache_findName(Mustache_storeRaw(st, char), chars, char), char)

\* the while loop of feed
RECURSIVE Mustache_feedLoop(_, _)

\* one turn of the loop, r being what processChar left
Mustache_feedLoopNext(r) ==
    IF r.err # NoError THEN [st |-> r.st, err |-> r.err]
    ELSE Mustache_feedLoop(r.st, r.chars)

Mustache_feedLoop(st, chars) ==
    IF chars = <<>> THEN [st |-> st, err |-> NoError]
    ELSE Mustache_feedLoopNext(Mustache_processChar(st, Tail(chars), Head(chars)))

\* the line break between two lines fed is not recorded
Mustache_recordNewline_none(st) == st

\* feed: props.raw = props.raw ? `${props.raw}\n` : props.raw
Mustache_recordNewline(st) ==
    IF st.props.raw # <<>> THEN [st EXCEPT !.props.raw = Append(@, EOL)] ELSE st

\* feed, the last statement: sp is what setProp left
Mustache_release(sp) ==
    IF sp.err # NoError THEN sp
    ELSE [st |-> [sp.st EXCEPT !.internalProps = <<>>], err |-> NoError]

\* the end of feed, r being what the loop left
Mustache_feedEnd(r) ==
    IF r.err # NoError THEN r
    ELSE IF ~Mustache_seeking(r.st) THEN Mustache_release(Mustache_setProp(r.st))
    ELSE r

\* MustacheStatement.feed: the statement after the call and the error thrown
Mustache_feed(st, text) ==
    IF st.ended THEN [st |-> st, err |-> ErrUnexpectedToken]
    ELSE Mustache_feedEnd(Mustache_feedLoop(Mustache_recordNewline(st), text))

-----------------------------------------------------------------------------
(* Tokenizer *)

\* the tag table handed to the constructor (the caller's; these are the tags
\* the model runs with)
tagsDef ==
    (<<"i","f">> :> [block |-> TRUE, seekable |-> TRUE]) @@
    (<<"e","a","c","h">> :> [block |-> TRUE, seekable |-> TRUE]) @@
    (<<"s","e","t">> :> [block |-> FALSE, seekable |-> TRUE]) @@
    (<<"e","l","s","e">> :> [block |-> FALSE, seekable |-> FALSE])

\* the table is an object the caller wrote, `{ if: { ... }, ... }`: besides
\* its own keys it answers to the names it inherits from Object.prototype
\* (constructor, toString, valueOf, hasOwnProperty, ...), of which the model
\* keeps one
Object_prototype == {<<"c","o","n","s","t","r","u","c","t","o","r">>}

\* this.tagsDef[tagName]: <<>> for undefined, else the one value; an
\* inherited member is a function, whose block and seekable are undefined,
\* FALSE wherever the code tests them
tagsDefGet(tagName) ==
    IF tagName \in DOMAIN tagsDef THEN <<tagsDef[tagName]>>
    ELSE IF tagName \in Object_prototype
    THEN <<[block |-> FALSE, seekable |-> FALSE]>>
    ELSE <<>>

\* the longest prefix of s made of word characters
RECURSIVE wordPrefix(_)
wordPrefix(s) ==
    IF s # <<>> /\ Head(s) \in WordChars
    THEN <<Head(s)>> \o wordPrefix(Tail(s)) ELSE <<>>

\* s without the prefix p when s starts with p, else s
dropPrefix(s, p) ==
    IF Len(s) >= Len(p) /\ SubSeq(s, 1, Len(p)) = p
    THEN SubSeq(s, Len(p) + 1, Len(s)) ELSE s

\* TAG_REGEX.exec(s), /^(\\)?@(?:!)?(\w+)/: match is FALSE for null, g1 says
\* whether group 1 took the backslash, g2 is group 2
TAG_REGEX(s) ==
    [match |-> /\ dropPrefix(s, <<"\\">>) # <<>>
               /\ Head(dropPrefix(s, <<"\\">>)) = "@"
               /\ wordPrefix(dropPrefix(Tail(dropPrefix(s, <<"\\">>)), <<"!">>)) # <<>>,
     g1    |-> s # <<>> /\ Head(s) = "\\",
     g2    |-> IF dropPrefix(s, <<"\\">>) = <<>> THEN <<>>
               ELSE wordPrefix(dropPrefix(Tail(dropPrefix(s, <<"\\">>)), <<"!">>))]

\* the leading whitespace goes with the backslash
ESCAPE_REGEX_replace_trimmed(text) ==
    IF trimLeft(text) # <<>> /\ Head(trimLeft(text)) = "\\"
    THEN Tail(trimLeft(text))
    ELSE text

\* text.replace(ESCAPE_REGEX, '$1'), /^(\s*)\\/: the backslash that follows
\* the leading whitespace is dropped
ESCAPE_REGEX_replace(text) ==
    IF trimLeft(text) # <<>> /\ Head(trimLeft(text)) = "\\"
    THEN SubSeq(text, 1, Len(text) - Len(trimLeft(text))) \o Tail(trimLeft(text))
    ELSE text

\* text.replace(TRIM_TAG_REGEX, ''), /^@/
TRIM_TAG_REGEX_replace(text) == dropPrefix(text, <<"@">>)

\* getTag after the match m: <<>> for null, else one record; an escaped
\* match is { escaped: true }
getTagOf(m) ==
    IF ~m.match THEN <<>>
    ELSE IF tagsDefGet(m.g2) = <<>> THEN <<>>
    ELSE IF m.g1 THEN << [escaped |-> TRUE, block |-> FALSE, seekable |-> TRUE] >>
    ELSE << [escaped  |-> FALSE,
             block    |-> tagsDefGet(m.g2)[1].block,
             seekable |-> tagsDefGet(m.g2)[1].seekable] >>

getTag(text) == getTagOf(TAG_REGEX(trim(text)))

getTagNode(properties, lineno) ==
    [type |-> "block", properties |-> properties, lineno |-> lineno,
     children |-> <<>>]

\* a raw node that holds the text trimmed
getRawNode_trimmed(tk, value) ==
    [type |-> "raw", value |-> trim(value), lineno |-> tk.line]

getRawNode(tk, value) == [type |-> "raw", value |-> value, lineno |-> tk.line]

\* the lines are counted from 0
getBlankLineNode_fromZero(tk) == [type |-> "newline", lineno |-> tk.line - 1]

getBlankLineNode(tk) == [type |-> "newline", lineno |-> tk.line]

getMustacheNode(properties, lineno) ==
    [type |-> "mustache", lineno |-> lineno,
     properties |-> [name  |-> properties.name,
                     jsArg |-> properties.jsArg,
                     raw   |-> properties.raw]]

\* a closing tag is looked for in the whole stack
isClosingTag_anyOpen(tk, text) ==
    \E i \in 1..Len(tk.openedTags) :
        trim(text) = <<"@","e","n","d">> \o tk.openedTags[i].properties.name

isClosingTag(tk, text) ==
    IF Len(tk.openedTags) = 0 THEN FALSE
    ELSE trim(text) =
             <<"@","e","n","d">> \o tk.openedTags[Len(tk.openedTags)].properties.name

\* isSeeking and isSeeked, for each of the two statement slots
isSeekingBlock(tk) ==
    tk.blockStatement # <<>> /\ Tag_seeking(tk.blockStatement[1])

isSeekedBlock(tk) ==
    tk.blockStatement # <<>> /\ ~Tag_seeking(tk.blockStatement[1])

isSeekingMustache(tk) ==
    tk.mustacheStatement # <<>> /\ Mustache_seeking(tk.mustacheStatement[1])

isSeekedMustache(tk) ==
    tk.mustacheStatement # <<>> /\ ~Mustache_seeking(tk.mustacheStatement[1])

\* the node goes to the block opened first
consumeNode_first(tk, tag) ==
    IF Len(tk.openedTags) > 0
    THEN [tk EXCEPT !.openedTags[1].children = Append(@, tag)]
    ELSE [tk EXCEPT !.tokens = Append(@, tag)]

consumeNode(tk, tag) ==
    IF Len(tk.openedTags) > 0
    THEN [tk EXCEPT !.openedTags[Len(tk.openedTags)].children = Append(@, tag)]
    ELSE [tk EXCEPT !.tokens = Append(@, tag)]

\* the node gets the number of the line the statement ended on
consumeBlockStatement_endLine(tk, props, startPosition) ==
    IF tagsDefGet(props.name)[1].block
    THEN consumeNode([tk EXCEPT !.openedTags =
                                    Append(@, getTagNode(props, tk.line)),
                                !.blockStatement = <<>>],
                     getBlankLineNode(tk))
    ELSE consumeNode(consumeNode([tk EXCEPT !.blockStatement = <<>>],
                                 getTagNode(props, tk.line)),
                     getBlankLineNode(tk))

\* feedTextToBlockStatement, the statement has ended: the node is pushed on
\* openedTags or consumed, then the newline
consumeBlockStatement(tk, props, startPosition) ==
    IF tagsDefGet(props.name)[1].block
    THEN consumeNode([tk EXCEPT !.openedTags =
                                    Append(@, getTagNode(props, startPosition)),
                                !.blockStatement = <<>>],
                     getBlankLineNode(tk))
    ELSE consumeNode(consumeNode([tk EXCEPT !.blockStatement = <<>>],
                                 getTagNode(props, startPosition)),
                     getBlankLineNode(tk))

\* feedTextToBlockStatement after this.blockStatement.feed(text); reading
\* tagsDef[props.name].block is a TypeError when the table has nothing
\* under the name the statement collected
afterBlockFeed(tk, r) ==
    IF r.err # NoError
    THEN [tk EXCEPT !.blockStatement = <<r.st>>, !.error = r.err]
    ELSE IF Tag_seeking(r.st) THEN [tk EXCEPT !.blockStatement = <<r.st>>]
    ELSE IF tagsDefGet(r.st.props.name) = <<>>
    THEN [tk EXCEPT !.blockStatement = <<r.st>>, !.error = ErrTypeError]
    ELSE consumeBlockStatement(tk, r.st.props, r.st.startPosition)

feedTextToBlockStatement(tk, text) ==
    afterBlockFeed(tk, Tag_feed(tk.blockStatement[1], text))

RECURSIVE processText(_, _)

\* the text on the right becomes a raw node, whatever it holds
consumeTextRight_raw(tk, textRight) ==
    IF textRight # <<>>
    THEN consumeNode(consumeNode(tk, getRawNode(tk, textRight)),
                     getBlankLineNode(tk))
    ELSE consumeNode(tk, getBlankLineNode(tk))

\* feedTextToMustacheStatement, the statement has ended: the text on the
\* right is processed, or the newline consumed
consumeTextRight(tk, textRight) ==
    IF textRight # <<>> THEN processText(tk, textRight)
    ELSE consumeNode(tk, getBlankLineNode(tk))

\* the raw node of the text on the left keeps the number of the current line
consumeTextLeft_endLine(tk, props, startPosition) ==
    IF props.textLeft # <<>>
    THEN consumeNode(tk, getRawNode(tk, props.textLeft))
    ELSE tk

\* feedTextToMustacheStatement, the statement has ended: the text on the left
consumeTextLeft(tk, props, startPosition) ==
    IF props.textLeft # <<>>
    THEN consumeNode(tk, [getRawNode(tk, props.textLeft)
                             EXCEPT !.lineno = startPosition])
    ELSE tk

\* the statement that has ended stays in its slot
consumeMustacheStatement_kept(tk, props, startPosition) ==
    consumeTextRight(
        consumeNode(consumeTextLeft(tk, props, startPosition),
                    getMustacheNode(props, startPosition)),
        props.textRight)

\* feedTextToMustacheStatement, the statement has ended
consumeMustacheStatement(tk, props, startPosition) ==
    consumeTextRight(
        [consumeNode(consumeTextLeft(tk, props, startPosition),
                     getMustacheNode(props, startPosition))
            EXCEPT !.mustacheStatement = <<>>],
        props.textRight)

\* feedTextToMustacheStatement after this.mustacheStatement.feed(text)
afterMustacheFeed(tk, r) ==
    IF r.err # NoError
    THEN [tk EXCEPT !.mustacheStatement = <<r.st>>, !.error = r.err]
    ELSE IF Mustache_seeking(r.st) THEN [tk EXCEPT !.mustacheStatement = <<r.st>>]
    ELSE consumeMustacheStatement([tk EXCEPT !.mustacheStatement = <<r.st>>],
                                  r.st.props, r.st.startPosition)

feedTextToMustacheStatement(tk, text) ==
    afterMustacheFeed(tk, Mustache_feed(tk.mustacheStatement[1], text))

\* the block opened first is the one taken off the stack
closeTag_first(tk) ==
    consumeNode(
        consumeNode([tk EXCEPT !.openedTags = Tail(@)], tk.openedTags[1]),
        getBlankLineNode(tk))

\* the closing line leaves no Newline node
closeTag_quiet(tk) ==
    consumeNode([tk EXCEPT !.openedTags = SubSeq(@, 1, Len(@) - 1)],
                tk.openedTags[Len(tk.openedTags)])

\* processText: the text is a closing block tag
closeTag(tk) ==
    consumeNode(
        consumeNode([tk EXCEPT !.openedTags = SubSeq(@, 1, Len(@) - 1)],
                    tk.openedTags[Len(tk.openedTags)]),
        getBlankLineNode(tk))

\* processText once no statement is seeking, tag being what getTag returned
classifyText(tk, text, tag) ==
    IF tag # <<>> /\ tag[1].escaped
    THEN consumeNode(consumeNode(tk, getRawNode(tk, ESCAPE_REGEX_replace(text))),
                     getBlankLineNode(tk))
    ELSE IF tag # <<>>
    THEN feedTextToBlockStatement(
             [tk EXCEPT !.blockStatement =
                            <<NewTagStatement(tk.line, tag[1].seekable)>>],
             TRIM_TAG_REGEX_replace(trim(text)))
    ELSE IF isClosingTag(tk, text) THEN closeTag(tk)
    ELSE IF MUSTACHE_REGEX(text)
    THEN feedTextToMustacheStatement(
             [tk EXCEPT !.mustacheStatement = <<NewMustacheStatement(tk.line)>>],
             text)
    ELSE consumeNode(consumeNode(tk, getRawNode(tk, text)), getBlankLineNode(tk))

\* a line that starts a tag is classified even while a statement is open
processText_tagFirst(tk, text) ==
    IF getTag(text) # <<>> THEN classifyText(tk, text, getTag(text))
    ELSE IF isSeekingBlock(tk) THEN feedTextToBlockStatement(tk, text)
    ELSE IF isSeekingMustache(tk) THEN feedTextToMustacheStatement(tk, text)
    ELSE classifyText(tk, text, getTag(text))

processText(tk, text) ==
    IF isSeekingBlock(tk) THEN feedTextToBlockStatement(tk, text)
    ELSE IF isSeekingMustache(tk) THEN feedTextToMustacheStatement(tk, text)
    ELSE classifyText(tk, text, getTag(text))

\* the tokenizer's fields as one record, and back
Tk ==
    [tokens |-> tokens, openedTags |-> openedTags,
     blockStatement |-> blockStatement, mustacheStatement |-> mustacheStatement,
     line |-> line, error |-> error]

SetTk(tk) ==
    /\ tokens' = tk.tokens
    /\ openedTags' = tk.openedTags
    /\ blockStatement' = tk.blockStatement
    /\ mustacheStatement' = tk.mustacheStatement
    /\ line' = tk.line
    /\ error' = tk.error

\* parse(): const lines = this.template.split(EOL)
parseSplit ==
    /\ pc = "constructed"
    /\ lines' = split(template)
    /\ pc' = "loop"
    /\ UNCHANGED <<template, line, tokens, openedTags, blockStatement,
                   mustacheStatement, error, charBucket, got>>

\* the line is read and left where it is
parseLine_sameLine ==
    /\ pc = "loop"
    /\ Len(lines) > 0
    /\ SetTk(processText([Tk EXCEPT !.line = line + 1], Head(lines)))
    /\ pc' = IF error' # NoError THEN "thrown" ELSE "loop"
    /\ UNCHANGED <<template, lines, charBucket, got>>

\* parse(): one iteration of while (lines.length); a throw leaves parse()
parseLine ==
    /\ pc = "loop"
    /\ Len(lines) > 0
    /\ SetTk(processText([Tk EXCEPT !.line = line + 1], Head(lines)))
    /\ pc' = IF error' # NoError THEN "thrown" ELSE "loop"
    /\ lines' = Tail(lines)
    /\ UNCHANGED <<template, charBucket, got>>

\* the raw text of the open tag statement goes back without its `@`
flushBlockStatement_noSigil(tk) ==
    IF tk.blockStatement # <<>>
    THEN consumeNode(
             consumeNode([tk EXCEPT !.blockStatement = <<>>],
                         getRawNode(tk, tk.blockStatement[1].props.raw)),
             getBlankLineNode(tk))
    ELSE tk

\* the end of parse(): an open tag statement becomes a raw node
flushBlockStatement(tk) ==
    IF tk.blockStatement # <<>>
    THEN consumeNode(
             consumeNode([tk EXCEPT !.blockStatement = <<>>],
                         getRawNode(tk, <<"@">> \o tk.blockStatement[1].props.raw)),
             getBlankLineNode(tk))
    ELSE tk

\* the end of parse(): an open mustache statement becomes a raw node
flushMustacheStatement(tk) ==
    IF tk.mustacheStatement # <<>>
    THEN consumeNode(
             consumeNode([tk EXCEPT !.mustacheStatement = <<>>],
                         getRawNode(tk, tk.mustacheStatement[1].props.textLeft
                                        \o tk.mustacheStatement[1].props.raw
                                        \o tk.mustacheStatement[1].props.textRight)),
             getBlankLineNode(tk))
    ELSE tk

parseEnd ==
    /\ pc = "loop"
    /\ Len(lines) = 0
    /\ SetTk(flushMustacheStatement(flushBlockStatement(Tk)))
    /\ pc' = "done"
    /\ UNCHANGED <<template, lines, charBucket, got>>

-----------------------------------------------------------------------------
(* The templates the tokenizer is run on *)

\* Array.prototype.join(EOL), the inverse of split on texts without EOL
RECURSIVE join(_)
join(ls) ==
    IF Len(ls) = 0 THEN <<>>
    ELSE IF Len(ls) = 1 THEN ls[1]
    ELSE ls[1] \o <<EOL>> \o join(Tail(ls))

\* the longest template of Spec, in lines
MaxLines == 3

\* the deepest nesting of SpecDepth
MaxDepth == 4

\* the longest text fed to a tag statement by SpecFeed, in characters
MaxTagText == 5

\* the longest text fed to a mustache statement by SpecFeed, in characters
MaxMustacheText == 7

L_empty    == <<>>
L_arg      == <<"u"," "," ","v">>
L_if       == <<"@","i","f","(","x",")">>
L_endif    == <<"@","e","n","d","i","f">>
L_each     == <<" ","@","e","a","c","h","(","x",")">>
L_endeach  == <<"@","e","n","d","e","a","c","h"," ">>
L_ifOpen   == <<"@","i","f","(">>
L_setOpen  == <<"@","s","e","t"," ","(","w">>
L_close    == <<")">>
L_bang     == <<"@","!","i","f","(">>
L_hello    == <<"H","i"," ","{","{"," ","u"," ","}","}","!">>
L_mOpen    == <<"a","{","{","{"," ","b">>
L_mClose   == <<"c"," ","}","}","}">>
L_mEndif   == <<"{","{","u","}","}","@","e","n","d","i","f">>
L_else     == <<"@","e","l","s","e">>
L_elseArg  == <<" ","@","e","l","s","e"," ","(">>
L_escIf    == <<" ","\\","@","i","f","(","x",")">>
L_unknown  == <<"@","i","f","x"," ","{","{","u","}","}">>
L_inherited == <<"@","c","o","n","s","t","r","u","c","t","o","r">>
L_strayLeft == <<"}","{","{"," ","{","a","}","}">>
L_closeBlank == <<")"," ">>
L_mIf      == <<"{","{","u","}","}","@","i","f","(","x",")">>
L_mAgain   == <<"{","{","u","}","}","{","{","a">>

Lines ==
    {L_empty, L_arg, L_if, L_endif, L_each, L_endeach, L_ifOpen, L_setOpen,
     L_close, L_bang, L_hello, L_mOpen, L_mClose, L_mEndif, L_else, L_elseArg,
     L_escIf, L_unknown, L_inherited, L_strayLeft, L_closeBlank,
     L_mIf, L_mAgain}

SeqsUpTo(S, n) == UNION {[1..k -> S] : k \in 1..n}

\* the texts of at most n characters of the set S
TextsUpTo(S, n) == UNION {[1..k -> S] : k \in 0..n}

\* the state after new Tokenizer(template, tagsDef)
Constructed(text) ==
    /\ template = text
    /\ lines = <<>>
    /\ line = 0
    /\ tokens = <<>>
    /\ openedTags = <<>>
    /\ blockStatement = <<>>
    /\ mustacheStatement = <<>>
    /\ error = NoError
    /\ pc = "constructed"
    /\ charBucket = <<>>
    /\ got = <<>>

Init == \E ls \in SeqsUpTo(Lines, MaxLines) : Constructed(join(ls))

Next == parseSplit \/ parseLine \/ parseEnd

Spec == Init /\ [][Next]_vars

\* before new Tokenizer(template, tagsDef): no object yet
InitLive ==
    /\ template = <<>>
    /\ lines = <<>>
    /\ line = 0
    /\ tokens = <<>>
    /\ openedTags = <<>>
    /\ blockStatement = <<>>
    /\ mustacheStatement = <<>>
    /\ error = NoError
    /\ pc = "new"
    /\ charBucket = <<>>
    /\ got = <<>>

\* new Tokenizer(template, tagsDef): the fields take their initial values
newTokenizer ==
    /\ pc = "new"
    /\ \E ls \in SeqsUpTo(Lines, MaxLines) : template' = join(ls)
    /\ pc' = "constructed"
    /\ UNCHANGED <<lines, line, tokens, openedTags, blockStatement,
                   mustacheStatement, error, charBucket, got>>

NextLive == newTokenizer \/ parseSplit \/ parseLine \/ parseEnd

\* the control of parse(): the split, one turn of while (lines.length) taking
\* a line (a throw leaves the loop), the return after the loop. These are
\* parseSplit, parseLine and parseEnd seen on pc and lines only, with the
\* same guards.
parseStep ==
    \/ /\ pc = "constructed"
       /\ pc' = "loop"
       /\ lines' = split(template)
    \/ /\ pc = "loop"
       /\ Len(lines) > 0
       /\ pc' \in {"loop", "thrown"}
       /\ lines' = Tail(lines)
    \/ /\ pc = "loop"
       /\ Len(lines) = 0
       /\ pc' = "done"
       /\ lines' = lines

\* parse() is one synchronous call: once called it runs on, so a step of it
\* that can be taken is taken
SpecLive == InitLive /\ [][NextLive]_vars /\ WF_<<pc, lines>>(parseStep)

\* the names of the block tags of the table
BlockTags == {n \in DOMAIN tagsDef : tagsDef[n].block /\ tagsDef[n].seekable}

\* the line that opens the block tag name, and the line that closes it
OpenLine(name) == <<"@">> \o name \o <<"(","x",")">>

CloseLine(name) == <<"@","e","n","d">> \o name

\* names[1] .. names[n] opened one inside the other, then closed
NestTemplate(names) ==
    [i \in 1..(2 * Len(names)) |->
        IF i <= Len(names) THEN OpenLine(names[i])
        ELSE CloseLine(names[2 * Len(names) + 1 - i])]

InitDepth ==
    \E n \in 1..MaxDepth : \E names \in [1..n -> BlockTags] :
        Constructed(join(NestTemplate(names)))

SpecDepth == InitDepth /\ [][Next]_vars

-----------------------------------------------------------------------------
(* The statements fed directly, as a caller of feed() does: one line a call *)

TagChars == {"(", ")", "a", " ", EOL}

MustacheChars == {"{", "}", "a", EOL}

\* after new TagStatement(1, seekable), text being what the caller will feed
ConstructedTag(text, seekable) ==
    /\ template = text
    /\ lines = split(text)
    /\ line = 0
    /\ tokens = <<>>
    /\ openedTags = <<>>
    /\ blockStatement = <<NewTagStatement(1, seekable)>>
    /\ mustacheStatement = <<>>
    /\ error = NoError
    /\ pc = "tag"
    /\ charBucket = <<>>
    /\ got = <<>>

\* after new MustacheStatement(1), text being what the caller will feed
ConstructedMustache(text) ==
    /\ template = text
    /\ lines = split(text)
    /\ line = 0
    /\ tokens = <<>>
    /\ openedTags = <<>>
    /\ blockStatement = <<>>
    /\ mustacheStatement = <<NewMustacheStatement(1)>>
    /\ error = NoError
    /\ pc = "mustache"
    /\ charBucket = <<>>
    /\ got = <<>>

InitFeed ==
    \/ \E text \in TextsUpTo(TagChars, MaxTagText) : \E seekable \in BOOLEAN :
           ConstructedTag(text, seekable)
    \/ \E text \in TextsUpTo(MustacheChars, MaxMustacheText) :
           ConstructedMustache(text)

\* statement.feed(line) on the tag statement; error is what the call threw
tagFeed ==
    /\ pc = "tag"
    /\ Len(lines) > 0
    /\ blockStatement' = <<Tag_feed(blockStatement[1], Head(lines)).st>>
    /\ error' = Tag_feed(blockStatement[1], Head(lines)).err
    /\ lines' = Tail(lines)
    /\ line' = line + 1
    /\ UNCHANGED <<template, tokens, openedTags, mustacheStatement, pc, charBucket, got>>

\* statement.feed(line) on the mustache statement; error is what the call threw
mustacheFeed ==
    /\ pc = "mustache"
    /\ Len(lines) > 0
    /\ mustacheStatement' = <<Mustache_feed(mustacheStatement[1], Head(lines)).st>>
    /\ error' = Mustache_feed(mustacheStatement[1], Head(lines)).err
    /\ lines' = Tail(lines)
    /\ line' = line + 1
    /\ UNCHANGED <<template, tokens, openedTags, blockStatement, pc, charBucket, got>>

NextFeed == tagFeed \/ mustacheFeed

SpecFeed == InitFeed /\ [][NextFeed]_vars

\* the tokenizer run on templates and the statements fed directly, together
InitAll == Init \/ InitFeed

NextAll == Next \/ NextFeed

SpecAll == InitAll /\ [][NextAll]_vars

-----------------------------------------------------------------------------
(* A CharBucket fed directly, one character a call *)

\* the longest text fed to a bucket by SpecBucket, in characters
MaxBucketText == 5

BucketChars == {"a", "b", " ", EOL}

WhiteSpaceModes == {"NONE", "ALL", "CONTROLLED"}

\* after new CharBucket(mode), text being what the caller will feed; line
\* counts the calls of feed()
ConstructedBucket(text, mode) ==
    /\ template = text
    /\ lines = <<>>
    /\ line = 0
    /\ tokens = <<>>
    /\ openedTags = <<>>
    /\ blockStatement = <<>>
    /\ mustacheStatement = <<>>
    /\ error = NoError
    /\ pc = "bucket"
    /\ charBucket = <<NewCharBucket(mode)>>
    /\ got = <<>>

InitBucket ==
    \E text \in TextsUpTo(BucketChars, MaxBucketText) :
        \E mode \in WhiteSpaceModes : ConstructedBucket(text, mode)

\* bucket.feed(char) with the next character of the text
bucketFeed ==
    /\ pc = "bucket"
    /\ line < Len(template)
    /\ charBucket' = <<CharBucket_feed(charBucket[1], template[line + 1])>>
    /\ line' = line + 1
    /\ UNCHANGED <<template, lines, tokens, openedTags, blockStatement,
                   mustacheStatement, error, pc, got>>

\* bucket.get()
bucketGet ==
    /\ pc = "bucket"
    /\ got' = <<CharBucket_get(charBucket[1])>>
    /\ charBucket' = <<CharBucket_afterGet(charBucket[1])>>
    /\ UNCHANGED <<template, lines, line, tokens, openedTags, blockStatement,
                   mustacheStatement, error, pc>>

NextBucket == bucketFeed \/ bucketGet

SpecBucket == InitBucket /\ [][NextBucket]_vars

-----------------------------------------------------------------------------
(* Vocabulary of the properties *)

\* the input lines of the template, as parse() splits them
InputLines == split(template)

IsPrefix(p, s) == Len(p) <= Len(s) /\ SubSeq(s, 1, Len(p)) = p

ContainsMustache(l) ==
    \E i \in 1..(Len(l) - 1) : l[i] = "{" /\ l[i + 1] = "{"

\* l without the backslash it starts with, if it starts with one
Unescaped(l) == IF IsPrefix(<<"\\">>, l) THEN Tail(l) ELSE l

\* the trimmed line starts with `@` (optionally preceded by a backslash)
\* followed by a tag name of the table
StartsWithTagName(l) ==
    \E n \in DOMAIN tagsDef : IsPrefix(<<"@">> \o n, Unescaped(trim(l)))

\* the same, with `!` between the `@` and the tag name
StartsWithBangTagName(l) ==
    \E n \in DOMAIN tagsDef : IsPrefix(<<"@", "!">> \o n, Unescaped(trim(l)))

\* what a node is, its line number left out
Shape(node) ==
    IF node.type = "raw" THEN <<"raw", node.value>> ELSE <<node.type>>

Shapes(nodes) == [i \in 1..Len(nodes) |-> Shape(nodes[i])]

\* one Raw node and one Newline node for each of the first k lines of ls
RawAndNewline(ls, k) ==
    [i \in 1..(2 * k) |->
        IF i % 2 = 1 THEN <<"raw", ls[(i + 1) \div 2]>> ELSE <<"newline">>]

\* the lines parse() has processed become exactly Raw, Newline pairs in the
\* root list, nothing is on the stack and nothing was thrown
OnlyRawLines ==
    pc \in {"loop", "thrown", "done"} =>
        /\ error = NoError
        /\ openedTags = <<>>
        /\ Shapes(tokens) = RawAndNewline(InputLines, line)
        /\ (pc = "done" => line = Len(InputLines))

-----------------------------------------------------------------------------
(* C1 *)

StartsWithInheritedName(l) ==
    \E n \in Object_prototype :
        \/ IsPrefix(<<"@">> \o n, Unescaped(trim(l)))
        \/ IsPrefix(<<"@", "!">> \o n, Unescaped(trim(l)))

\* the same holds of a template in which moreover no line starts with `@!`
\* followed by a tag name (TAG_REGEX takes such a line for a tag) or with `@`
\* followed by a name the table inherits (the lookup finds it): one Raw node
\* with the line unchanged and one Newline node per line, in order, nothing
\* else, and the stack stays empty.
C1_RawPerLine ==
    (\A i \in 1..Len(InputLines) :
        /\ ~ContainsMustache(InputLines[i])
        /\ ~StartsWithTagName(InputLines[i])
        /\ ~StartsWithBangTagName(InputLines[i])
        /\ ~StartsWithInheritedName(InputLines[i]))
    => OnlyRawLines

\* a template of three such lines, a closing line and a blank line among
\* them, has been parsed to its end
C1_Witness ==
    /\ pc = "done"
    /\ InputLines = <<L_endeach, L_empty, L_close>>
    /\ Len(tokens) = 6

-----------------------------------------------------------------------------
(* C2 *)

\* parse() is about to process the line Head(lines)
AtLine == pc = "loop" /\ Len(lines) > 0

\* the list consumeNode appends to: the children of the top of the stack
\* ot, or the root list tks
Container(ot, tks) == IF Len(ot) > 0 THEN ot[Len(ot)].children ELSE tks

\* the block without its children
BlockHead(node) == [properties |-> node.properties, lineno |-> node.lineno]

\* the trimmed text is `@end` + the name of the block on top of ot
ClosesTop(ot, text) ==
    /\ Len(ot) > 0
    /\ trim(text) = <<"@","e","n","d">> \o ot[Len(ot)].properties.name

\* the text names a block of ot that is under the top and has another name,
\* or ot is empty and the text is `@end` + a tag name
NamesDeeperOrNone(ot, text) ==
    \/ /\ Len(ot) > 0
       /\ ~ClosesTop(ot, text)
       /\ \E i \in 1..(Len(ot) - 1) :
              trim(text) = <<"@","e","n","d">> \o ot[i].properties.name
    \/ /\ Len(ot) = 0
       /\ \E n \in DOMAIN tagsDef : trim(text) = <<"@","e","n","d">> \o n

\* from the stack ot to the stack ot2 exactly the top block went away: the
\* blocks under it are the same, and the block, with the children it had, is
\* the node before the last Newline of the list that is now appended to
PopsTheTop(ot, tks, ot2, tks2) ==
    /\ Len(ot2) = Len(ot) - 1
    /\ \A i \in 1..Len(ot2) : BlockHead(ot2[i]) = BlockHead(ot[i])
    /\ \A i \in 1..(Len(ot2) - 1) : ot2[i] = ot[i]
    /\ Len(Container(ot2, tks2)) =
           Len(Container(SubSeq(ot, 1, Len(ot) - 1), tks)) + 2
    /\ IsPrefix(Container(SubSeq(ot, 1, Len(ot) - 1), tks), Container(ot2, tks2))
    /\ Container(ot2, tks2)[Len(Container(ot2, tks2))].type = "newline"
    /\ Container(ot2, tks2)[Len(Container(ot2, tks2)) - 1].type = "block"
    /\ BlockHead(Container(ot2, tks2)[Len(Container(ot2, tks2)) - 1]) =
           BlockHead(ot[Len(ot)])
    /\ IsPrefix(ot[Len(ot)].children,
                Container(ot2, tks2)[Len(Container(ot2, tks2)) - 1].children)

\* the stack ot2 holds the blocks of ot, and under the top nothing changed
SameStack(ot, ot2) ==
    /\ Len(ot2) = Len(ot)
    /\ \A i \in 1..Len(ot) : BlockHead(ot2[i]) = BlockHead(ot[i])
    /\ \A i \in 1..(Len(ot) - 1) : ot2[i] = ot[i]

\* the text became a Raw node and a Newline node at the end of the list
EmittedAsText(text, ot, tks, ot2, tks2) ==
    /\ Len(Container(ot2, tks2)) = Len(Container(ot, tks)) + 2
    /\ IsPrefix(Container(ot, tks), Container(ot2, tks2))
    /\ Shape(Container(ot2, tks2)[Len(Container(ot2, tks2)) - 1]) = <<"raw", text>>
    /\ Shape(Container(ot2, tks2)[Len(Container(ot2, tks2))]) = <<"newline">>

\* the text from the k-th character on is the whole text, or what follows
\* `}}` in it
AfterMustache(text, k) ==
    k = 1 \/ (k > 2 /\ text[k - 1] = "}" /\ text[k - 2] = "}")

\* C2 as stated: a line pops the stack only if its trimmed text is `@end` +
\* the name of the block on top, and the pop removes exactly that block; a
\* line `@end<name>` that names a block deeper in the stack, or comes with an
\* empty stack, leaves the stack unchanged and becomes a Raw node and a
\* Newline node.
C2_AsStated ==
    [][AtLine =>
        /\ Len(openedTags') < Len(openedTags) =>
               /\ ClosesTop(openedTags, Head(lines))
               /\ PopsTheTop(openedTags, tokens, openedTags', tokens')
        /\ NamesDeeperOrNone(openedTags, Head(lines)) =>
               /\ error' = NoError
               /\ SameStack(openedTags, openedTags')
               /\ EmittedAsText(Head(lines), openedTags, tokens,
                                openedTags', tokens')
      ]_vars

\* C2, amended: a line pops the stack only if the trimmed text of the line,
\* or of what follows a mustache closed on it, is `@end` + the name of the
\* block on top, and the pop removes exactly that block; a line `@end<name>`
\* that names a block deeper in the stack, or comes with an empty stack,
\* leaves the stack unchanged and, when no tag or mustache statement is
\* open, becomes a Raw node and a Newline node.
C2_Lifo ==
    [][AtLine =>
        /\ Len(openedTags') < Len(openedTags) =>
               /\ \E k \in 1..Len(Head(lines)) :
                      /\ AfterMustache(Head(lines), k)
                      /\ ClosesTop(openedTags,
                                   SubSeq(Head(lines), k, Len(Head(lines))))
               /\ PopsTheTop(openedTags, tokens, openedTags', tokens')
        /\ NamesDeeperOrNone(openedTags, Head(lines)) =>
               /\ error' = NoError
               /\ SameStack(openedTags, openedTags')
               /\ (blockStatement = <<>> /\ mustacheStatement = <<>>) =>
                      EmittedAsText(Head(lines), openedTags, tokens,
                                    openedTags', tokens')
      ]_vars

\* `@endif` came with an empty stack and became text, then `@if(x)` was
\* opened and the mustache line closed it
C2_Witness ==
    /\ InputLines = <<L_endif, L_if, L_mEndif>>
    /\ line = 3
    /\ error = NoError
    /\ openedTags = <<>>
    /\ Shapes(tokens) = <<<<"raw", L_endif>>, <<"newline">>, <<"block">>, <<"newline">>>>
    /\ Shapes(tokens[3].children) = <<<<"newline">>, <<"mustache">>>>

-----------------------------------------------------------------------------
(* C3 *)

\* the number of blocks a template of SpecDepth opens
NestDepth == Len(InputLines) \div 2

\* the name of the block tag its i-th line opens
NestName(i) == CHOOSE n \in BlockTags : InputLines[i] = OpenLine(n)

\* the block opened on line i of a nest of n blocks, once closed: the Newline
\* of its opening line, then the block opened inside it and the Newline of
\* the line that closed that one
RECURSIVE ClosedBlock(_, _)
ClosedBlock(i, n) ==
    [type       |-> "block",
     properties |-> [name  |-> NestName(i),
                     jsArg |-> <<"x">>,
                     raw   |-> NestName(i) \o <<"(","x",")">>],
     lineno     |-> i,
     children   |->
         <<[type |-> "newline", lineno |-> i]>> \o
         (IF i < n
          THEN <<ClosedBlock(i + 1, n), [type |-> "newline", lineno |-> 2 * n - i]>>
          ELSE <<>>)]

Max(S) == CHOOSE x \in S : \A y \in S : y <= x

\* the length of the longest chain of blocks, each a child of the one before
RECURSIVE ChainDepth(_)
ChainDepth(nodes) ==
    Max({0} \cup {1 + ChainDepth(nodes[i].children) :
                     i \in {j \in 1..Len(nodes) : nodes[j].type = "block"}})

\* C3: a template that opens N block tags one inside the other and then
\* closes them with the N matching `@end<name>` lines gives one root block
\* whose chain of nested blocks has depth N; the blocks are closed in the
\* reverse of the order of their opening (after the j-th closing line the
\* stack holds the first N - j blocks opened), each closed block is appended
\* to the block opened just before it, or to the root list for the
\* outermost, and the stack is empty afterwards.
C3_NestDepth ==
    pc \in {"loop", "thrown", "done"} =>
        /\ error = NoError
        /\ line <= NestDepth =>
               /\ tokens = <<>>
               /\ Len(openedTags) = line
               /\ \A i \in 1..line :
                      /\ openedTags[i].properties.name = NestName(i)
                      /\ openedTags[i].lineno = i
        /\ line > NestDepth =>
               /\ Len(openedTags) = 2 * NestDepth - line
               /\ \A i \in 1..Len(openedTags) :
                      /\ openedTags[i].properties.name = NestName(i)
                      /\ openedTags[i].lineno = i
               /\ \A i \in 1..(Len(openedTags) - 1) :
                      Shapes(openedTags[i].children) = <<<<"newline">>>>
               /\ Container(openedTags, tokens) =
                      (IF Len(openedTags) > 0
                       THEN <<[type |-> "newline", lineno |-> Len(openedTags)]>>
                       ELSE <<>>) \o
                      <<ClosedBlock(Len(openedTags) + 1, NestDepth),
                        [type |-> "newline", lineno |-> line]>>
        /\ pc = "done" =>
               /\ openedTags = <<>>
               /\ Len(tokens) = 2
               /\ tokens[1] = ClosedBlock(1, NestDepth)
               /\ ChainDepth(tokens) = NestDepth

\* `@if(x)`, `@each(x)` and a third block were opened one inside the other
\* and closed: the root list holds the one block, of depth three or more
C3_Witness ==
    /\ pc = "done"
    /\ NestDepth >= 3
    /\ NestName(1) = <<"i","f">>
    /\ NestName(2) = <<"e","a","c","h">>
    /\ Len(tokens) = 2
    /\ ChainDepth(tokens) = NestDepth
    /\ tokens[1].children[2].properties.name = <<"e","a","c","h">>

-----------------------------------------------------------------------------
(* C4 *)

\* parse() has processed the last line and is about to leave its loop
AtEnd == pc = "loop" /\ Len(lines) = 0

\* the Raw value the claim gives for the statement left open
OpenStatementText ==
    IF blockStatement # <<>>
    THEN <<"@">> \o blockStatement[1].props.raw
    ELSE mustacheStatement[1].props.textLeft
         \o mustacheStatement[1].props.raw
         \o mustacheStatement[1].props.textRight

\* the text of the lines s..line of the template as written, the first one
\* trimmed
WrittenFrom(s) ==
    join(<<trim(InputLines[s])>> \o SubSeq(InputLines, s + 1, line))

IsSuffix(p, s) == Len(p) <= Len(s) /\ SubSeq(s, Len(s) - Len(p) + 1, Len(s)) = p

\* a Mustache node made on line ln is in the list nodes are appended to: the
\* line had a mustache before the statement that is open
MustacheBefore(ln) ==
    \E i \in 1..Len(Container(openedTags, tokens)) :
        /\ Container(openedTags, tokens)[i].type = "mustache"
        /\ Container(openedTags, tokens)[i].lineno = ln

\* C4: when the input ends while a tag statement or a mustache statement is
\* open, parse() throws nothing and appends exactly one Raw node followed by
\* exactly one Newline node; for a tag statement the Raw value is `@` + the
\* raw text of the statement, for a mustache statement it is textLeft + raw +
\* textRight (either way the lines of the statement as they were written,
\* from where the statement began when a mustache stands before it on its
\* first line); afterwards no statement is open.
C4_FlushOpenStatement ==
    [][(AtEnd /\ (blockStatement # <<>> \/ mustacheStatement # <<>>)) =>
        /\ pc' = "done"
        /\ error' = NoError
        /\ blockStatement' = <<>>
        /\ mustacheStatement' = <<>>
        /\ openedTags' = openedTags \/ SameStack(openedTags, openedTags')
        /\ Container(openedTags', tokens') =
               Container(openedTags, tokens) \o
               <<[type |-> "raw", value |-> OpenStatementText, lineno |-> line],
                 [type |-> "newline", lineno |-> line]>>
        /\ (Len(openedTags) > 0 => tokens' = tokens)
        /\ (blockStatement # <<>>
               /\ ~MustacheBefore(blockStatement[1].startPosition)) =>
               OpenStatementText = WrittenFrom(blockStatement[1].startPosition)
        /\ blockStatement = <<>> =>
               /\ IsSuffix(OpenStatementText,
                           join(SubSeq(InputLines,
                                       mustacheStatement[1].startPosition, line)))
               /\ ~MustacheBefore(mustacheStatement[1].startPosition) =>
                      OpenStatementText =
                          join(SubSeq(InputLines,
                                      mustacheStatement[1].startPosition, line))
      ]_vars

\* `@set (w` and `u  v` were read, the input ended in the argument of the
\* tag, and the two lines came back as one Raw node
C4_Witness ==
    /\ pc = "done"
    /\ error = NoError
    /\ InputLines = <<L_hello, L_setOpen, L_arg>>
    /\ blockStatement = <<>>
    /\ Len(tokens) = 6
    /\ tokens[5] = [type |-> "raw", lineno |-> 3,
                    value |-> L_setOpen \o <<EOL>> \o L_arg]
    /\ tokens[6] = [type |-> "newline", lineno |-> 3]

\* `a{{{ b` was read and the input ended inside the mustache statement
C4_WitnessMustache ==
    /\ pc = "done"
    /\ error = NoError
    /\ InputLines = <<L_if, L_mOpen>>
    /\ mustacheStatement = <<>>
    /\ Len(openedTags) = 1
    /\ Shapes(openedTags[1].children) =
           <<<<"newline">>, <<"raw", L_mOpen>>, <<"newline">>>>

-----------------------------------------------------------------------------
(* C5 *)

\* the line is `@` + the name n of a seekable tag of the table + `(` + the
\* first characters of the argument, with nothing but whitespace around the
\* `@name` part; p is where its `(` is
OpensTagAt(l, n, p) ==
    /\ n \in DOMAIN tagsDef
    /\ tagsDef[n].seekable
    /\ p \in 1..Len(l)
    /\ l[p] = "("
    /\ IsPrefix(<<"@">> \o n, l)
    /\ \A i \in (Len(n) + 2)..(p - 1) : whitespace(l[i])

OpensSeekableTag(l) ==
    \E n \in DOMAIN tagsDef : \E p \in 1..Len(trim(l)) : OpensTagAt(trim(l), n, p)

TagNameOf(l) ==
    CHOOSE n \in DOMAIN tagsDef : \E p \in 1..Len(trim(l)) : OpensTagAt(trim(l), n, p)

\* what the line holds after its first `(`
AfterParen(l) ==
    SubSeq(l, (CHOOSE p \in 1..Len(l) : l[p] = "(" /\ \A i \in 1..(p - 1) : l[i] # "(") + 1,
           Len(l))

\* the lines s..e of the template from the `(` of line s on, as written
WrittenArg(s, e) ==
    join(<<AfterParen(trim(InputLines[s]))>> \o SubSeq(InputLines, s + 1, e))

Count(ch, seq, n) == Cardinality({i \in 1..n : seq[i] = ch})

\* the places of txt where a `)` stands with every `(` before it closed
Closers(txt) ==
    {i \in 1..Len(txt) :
        txt[i] = ")" /\ Count("(", txt, i - 1) = Count(")", txt, i - 1)}

Min(S) == CHOOSE x \in S : \A y \in S : x <= y

\* txt with every run of whitespace cut down to its first character
RECURSIVE Collapse(_)
Collapse(txt) ==
    IF Len(txt) <= 1 THEN txt
    ELSE IF whitespace(txt[Len(txt)]) /\ whitespace(txt[Len(txt) - 1])
    THEN Collapse(SubSeq(txt, 1, Len(txt) - 1))
    ELSE Append(Collapse(SubSeq(txt, 1, Len(txt) - 1)), txt[Len(txt)])

NotEOL(ch) == ch # EOL

\* the argument written in txt before its closing `)`: the line breaks left
\* out, the whitespace collapsed
ArgumentOf(txt) ==
    Collapse(SelectSeq(SubSeq(txt, 1, Min(Closers(txt)) - 1), NotEOL))

\* the line the statement that reads Head(lines) started on
StartLine ==
    IF blockStatement # <<>> THEN blockStatement[1].startPosition ELSE line + 1

\* the Block node of the tag named n whose argument is written in txt
BlockOf(n, txt, s, node) ==
    /\ node.type = "block"
    /\ node.properties.name = n
    /\ node.properties.jsArg = ArgumentOf(txt)
    /\ node.lineno = s

\* the step emitted the one node of the tag and the Newline of the line: a
\* block tag was pushed on the stack, another one was appended
EmitsTag(n, txt, s) ==
    IF tagsDef[n].block
    THEN /\ tokens' = tokens
         /\ Len(openedTags') = Len(openedTags) + 1
         /\ SubSeq(openedTags', 1, Len(openedTags)) = openedTags
         /\ BlockOf(n, txt, s, openedTags'[Len(openedTags')])
         /\ openedTags'[Len(openedTags')].children =
                <<[type |-> "newline", lineno |-> line + 1]>>
    ELSE /\ SameStack(openedTags, openedTags')
         /\ Len(Container(openedTags', tokens')) =
                Len(Container(openedTags, tokens)) + 2
         /\ IsPrefix(Container(openedTags, tokens), Container(openedTags', tokens'))
         /\ BlockOf(n, txt, s,
                Container(openedTags', tokens')[Len(Container(openedTags', tokens')) - 1])
         /\ Container(openedTags', tokens')[Len(Container(openedTags', tokens'))] =
                [type |-> "newline", lineno |-> line + 1]

-----------------------------------------------------------------------------
(* C6 *)

\* the line Head(lines) goes to a mustache statement: to the open one, or to
\* a new one because no statement is open and the line, which is no tag and
\* closes no block, holds `{{`
ReadsMustache ==
    /\ AtLine
    /\ \/ mustacheStatement # <<>>
       \/ /\ blockStatement = <<>>
          /\ ~StartsWithTagName(Head(lines))
          /\ ~StartsWithBangTagName(Head(lines))
          /\ ~ClosesTop(openedTags, Head(lines))
          /\ ContainsMustache(Head(lines))

\* what feeding that line leaves of the statement
MustacheFed ==
    Mustache_feed(IF mustacheStatement # <<>> THEN mustacheStatement[1]
                  ELSE NewMustacheStatement(line + 1),
                  Head(lines))

\* the Raw node of textLeft, if there is a textLeft, then the Mustache node,
\* both with the line number of the start of the statement
LeftAndMustache(st) ==
    (IF st.props.textLeft # <<>>
     THEN <<[type |-> "raw", value |-> st.props.textLeft,
             lineno |-> st.startPosition]>>
     ELSE <<>>) \o
    <<[type |-> "mustache", lineno |-> st.startPosition,
       properties |-> [name  |-> st.props.name,
                       jsArg |-> st.props.jsArg,
                       raw   |-> st.props.raw]]>>

\* the text is no tag, closes no block and holds no `{{`
PlainText(ot, text) ==
    /\ ~StartsWithTagName(text)
    /\ ~StartsWithBangTagName(text)
    /\ ~ClosesTop(ot, text)
    /\ ~ContainsMustache(text)

\* the tokenizer tk with the nodes appended where consumeNode appends
WithNodes(tk, nodes) ==
    IF Len(tk.openedTags) > 0
    THEN [tk EXCEPT !.openedTags[Len(tk.openedTags)].children = @ \o nodes]
    ELSE [tk EXCEPT !.tokens = @ \o nodes]

\* the step leaves the tokenizer as tk is
LeavesAs(tk) ==
    /\ tokens' = tk.tokens
    /\ openedTags' = tk.openedTags
    /\ blockStatement' = tk.blockStatement
    /\ mustacheStatement' = tk.mustacheStatement
    /\ error' = tk.error

\* the step appended the nodes, and nothing else changed in the tree
Appends(nodes) ==
    /\ SameStack(openedTags, openedTags')
    /\ (Len(openedTags) > 0 => tokens' = tokens)
    /\ Container(openedTags', tokens') = Container(openedTags, tokens) \o nodes

\* C6: when a mustache statement ends, the tokenizer emits in this order a
\* Raw node holding textLeft if and only if textLeft is not empty, with the
\* line number of the line the statement started on, then the Mustache node,
\* then the nodes of textRight classified as a line of its own (a Raw node
\* and a Newline node when it is plain text) or, textRight being empty, one
\* Newline node; `Hi {{ u }}!` gives Raw("Hi "), Mustache{mustache, " u "},
\* Raw("!"), Newline.
C6_MustacheOrder ==
    [][/\ (ReadsMustache /\ MustacheFed.err = NoError /\ MustacheFed.st.ended) =>
            /\ ~ContainsMustache(MustacheFed.st.props.textRight) =>
                   mustacheStatement' = <<>>
            /\ MustacheFed.st.props.textRight = <<>> =>
                   /\ error' = NoError
                   /\ Appends(LeftAndMustache(MustacheFed.st) \o
                              <<[type |-> "newline", lineno |-> line + 1]>>)
            /\ MustacheFed.st.props.textRight # <<>> =>
                   LeavesAs(processText(
                       WithNodes([Tk EXCEPT !.line = line + 1,
                                            !.mustacheStatement = <<>>],
                                 LeftAndMustache(MustacheFed.st)),
                       MustacheFed.st.props.textRight))
            /\ (/\ MustacheFed.st.props.textRight # <<>>
                /\ PlainText(openedTags, MustacheFed.st.props.textRight)) =>
                   /\ error' = NoError
                   /\ Appends(LeftAndMustache(MustacheFed.st) \o
                              <<[type |-> "raw", lineno |-> line + 1,
                                 value |-> MustacheFed.st.props.textRight],
                                [type |-> "newline", lineno |-> line + 1]>>)
       /\ (AtLine /\ Head(lines) = L_hello /\ blockStatement = <<>>
              /\ mustacheStatement = <<>>) =>
            /\ error' = NoError
            /\ Appends(<<[type |-> "raw", lineno |-> line + 1,
                          value |-> <<"H","i"," ">>],
                         [type |-> "mustache", lineno |-> line + 1,
                          properties |->
                              [name  |-> <<"m","u","s","t","a","c","h","e">>,
                               jsArg |-> <<" ","u"," ">>,
                               raw   |-> <<"{","{"," ","u"," ","}","}">>]],
                         [type |-> "raw", lineno |-> line + 1, value |-> <<"!">>],
                         [type |-> "newline", lineno |-> line + 1]>>)
      ]_vars

\* `a{{{ b` and `c }}}` were read and then `Hi {{ u }}!`: the Raw node of
\* the text on the left has the line number of the first line, not of the
\* line the statement ended on, and the text on the right of the second
\* statement came after its Mustache node
C6_Witness ==
    /\ InputLines = <<L_mOpen, L_mClose, L_hello>>
    /\ line = 3
    /\ error = NoError
    /\ mustacheStatement = <<>>
    /\ Shapes(tokens) = <<<<"raw", <<"a">>>>, <<"mustache">>, <<"newline">>,
                          <<"raw", <<"H","i"," ">>>>, <<"mustache">>,
                          <<"raw", <<"!">>>>, <<"newline">>>>
    /\ tokens[1].lineno = 1
    /\ tokens[2].lineno = 1
    /\ tokens[2].properties.name = <<"e","m","u","s","t","a","c","h","e">>
    /\ tokens[3].lineno = 2

-----------------------------------------------------------------------------
(* C7 *)

\* feed() is about to be called, with the line Head(lines), on a mustache
\* statement that has not started
FeedsUnstarted ==
    /\ pc = "mustache"
    /\ Len(lines) > 0
    /\ ~mustacheStatement[1].started
    /\ ~mustacheStatement[1].ended

\* the places of the line where a `{` is followed by a second `{`
Openers(text) ==
    {i \in 1..(Len(text) - 1) : text[i] = "{" /\ text[i + 1] = "{"}

\* the name the delimiter at place o of the line gives
OpenerName(text, o) ==
    IF o + 2 <= Len(text) /\ text[o + 2] = "{" THEN EMUSTACHE ELSE MUSTACHE

\* the opening delimiter of the name
OpenerOf(name) == IF name = EMUSTACHE THEN <<"{","{","{">> ELSE <<"{","{">>

\* what the line holds after the delimiter at place o
AfterOpener(text, o) ==
    SubSeq(text, o + Len(OpenerOf(OpenerName(text, o))), Len(text))

\* the line with the delimiter at place o started the statement st2: the
\* name, the characters before the delimiter appended to textLeft and, when
\* the statement goes on to the end of the line, the argument read so far
StartedAt(st, st2, text, o) ==
    /\ st2.started
    /\ st2.props.name = OpenerName(text, o)
    /\ st2.props.textLeft = st.props.textLeft \o SubSeq(text, 1, o - 1)
    /\ IsPrefix(OpenerOf(OpenerName(text, o)), st2.props.raw)
    /\ (\A i \in 1..Len(AfterOpener(text, o)) : AfterOpener(text, o)[i] # "}") =>
           /\ ~st2.ended
           /\ st2.internalProps # <<>>
           /\ st2.internalProps[1].jsArg.chars = Collapse(AfterOpener(text, o))

\* C7 as stated: in a mustache statement that has not started, a `{`
\* followed on the line by a second `{` starts the statement with the name
\* `mustache`, or `emustache` when a third `{` follows, which then belongs to
\* the delimiter; a `{` that no `{` follows does not start the statement and
\* is appended, as the rest of such a line, to textLeft.
C7_AsStated ==
    [][(FeedsUnstarted /\ \E i \in 1..Len(Head(lines)) : Head(lines)[i] = "{") =>
        /\ error' = NoError
        /\ Openers(Head(lines)) # {} =>
               StartedAt(mustacheStatement[1], mustacheStatement'[1],
                         Head(lines), Min(Openers(Head(lines))))
        /\ Openers(Head(lines)) = {} =>
               /\ ~mustacheStatement'[1].started
               /\ mustacheStatement'[1].props.textLeft =
                      mustacheStatement[1].props.textLeft \o Head(lines)
      ]_vars

\* the same holds of the first call of feed(): it is the later calls on a
\* statement still not started, internalProps being null by then, that throw
C7_FirstFeedOnly ==
    [][(FeedsUnstarted /\ line = 0 /\ \E i \in 1..Len(Head(lines)) : Head(lines)[i] = "{") =>
        /\ error' = NoError
        /\ Openers(Head(lines)) # {} =>
               StartedAt(mustacheStatement[1], mustacheStatement'[1],
                         Head(lines), Min(Openers(Head(lines))))
        /\ Openers(Head(lines)) = {} =>
               /\ ~mustacheStatement'[1].started
               /\ mustacheStatement'[1].props.textLeft =
                      mustacheStatement[1].props.textLeft \o Head(lines)
      ]_vars

-----------------------------------------------------------------------------
(* C8 *)

\* the closing run of the name
CloserOf(name) == IF name = EMUSTACHE THEN <<"}","}","}">> ELSE <<"}","}">>

\* what the started statement has read after its opening delimiter, line
\* breaks included: the expression and, once ended, the closing run
BodyOf(st) == SubSeq(st.props.raw, Len(OpenerOf(st.props.name)) + 1, Len(st.props.raw))

\* the depth of the braces nested in the first n characters of the body: a
\* `{` opens one, a `}` closes the one open, if one is open
RECURSIVE BraceDepth(_, _)
BraceDepth(body, n) ==
    IF n = 0 THEN 0
    ELSE IF body[n] = "{" THEN BraceDepth(body, n - 1) + 1
    ELSE IF body[n] = "}" /\ BraceDepth(body, n - 1) > 0
    THEN BraceDepth(body, n - 1) - 1
    ELSE BraceDepth(body, n - 1)

\* the closing run of the name stands at place i of the body, on one line
FullRunAt(body, i, name) ==
    /\ i + Len(CloserOf(name)) - 1 <= Len(body)
    /\ SubSeq(body, i, i + Len(CloserOf(name)) - 1) = CloserOf(name)

\* the places of the body where a full closing run stands at depth zero
ClosePlaces(body, name) ==
    {i \in 1..Len(body) :
        FullRunAt(body, i, name) /\ BraceDepth(body, i - 1) = 0}

\* the `}` at place i of the body closes a `{` of the body
NestedClose(body, i) ==
    /\ body[i] = "}"
    /\ BraceDepth(body, i - 1) > 0

\* the statement is a started one that no call of feed() failed on
FedMustache ==
    /\ pc = "mustache"
    /\ mustacheStatement[1].started

\* C8 as stated: a mustache statement becomes ended only at a `}` read at
\* brace depth zero and followed on the line by one more `}` (mustache) or
\* two more (emustache); a `}` that closes a `{` nested in the expression
\* never ends it, and it ends at the first full closing run met at depth
\* zero.
C8_AsStated ==
    FedMustache =>
        /\ mustacheStatement[1].ended =>
               /\ Len(BodyOf(mustacheStatement[1])) >=
                      Len(CloserOf(mustacheStatement[1].props.name))
               /\ FullRunAt(BodyOf(mustacheStatement[1]),
                            Len(BodyOf(mustacheStatement[1]))
                                - Len(CloserOf(mustacheStatement[1].props.name)) + 1,
                            mustacheStatement[1].props.name)
               /\ ~NestedClose(BodyOf(mustacheStatement[1]),
                               Len(BodyOf(mustacheStatement[1]))
                                   - Len(CloserOf(mustacheStatement[1].props.name)) + 1)
               /\ Min(ClosePlaces(BodyOf(mustacheStatement[1]),
                                  mustacheStatement[1].props.name)) =
                      Len(BodyOf(mustacheStatement[1]))
                          - Len(CloserOf(mustacheStatement[1].props.name)) + 1
        /\ ~mustacheStatement[1].ended =>
               ClosePlaces(BodyOf(mustacheStatement[1]),
                           mustacheStatement[1].props.name) = {}

\* where the counter of the code and the depth of the nested braces part: a
\* brace was read before the opening delimiter, or a `}` at depth zero that
\* no full closing run follows
StrayBrace ==
    \/ \E i \in 1..Len(mustacheStatement[1].props.textLeft) :
           mustacheStatement[1].props.textLeft[i] \in {"{", "}"}
    \/ \E i \in 1..Len(BodyOf(mustacheStatement[1])) :
           /\ BodyOf(mustacheStatement[1])[i] = "}"
           /\ BraceDepth(BodyOf(mustacheStatement[1]), i - 1) = 0
           /\ ~FullRunAt(BodyOf(mustacheStatement[1]), i,
                         mustacheStatement[1].props.name)

\* with no such brace read, C8 holds
C8_NoStrayBrace ==
    (FedMustache /\ ~StrayBrace) => C8_AsStated

\* `{{}{a}}` was fed: the `}` that closes `{a` ended the statement
C8_NestedCloseEnded ==
    /\ FedMustache
    /\ template = <<"{","{","}","{","a","}","}">>
    /\ mustacheStatement[1].ended
    /\ mustacheStatement[1].props.jsArg = <<"}","{","a">>

-----------------------------------------------------------------------------
(* C9 *)

\* the fields of a statement the callers read, the same for both kinds
FieldsOf(st) == [started |-> st.started, ended |-> st.ended, props |-> st.props]

\* C9: a call of feed() on a tag statement or on a mustache statement whose
\* ended flag is true throws, and leaves started, ended, name, jsArg, raw,
\* textLeft and textRight as they were.
C9_FeedAfterEnd ==
    [][/\ (pc = "tag" /\ Len(lines) > 0 /\ blockStatement[1].ended) =>
            /\ error' = ErrUnexpectedToken
            /\ FieldsOf(blockStatement'[1]) = FieldsOf(blockStatement[1])
       /\ (pc = "mustache" /\ Len(lines) > 0 /\ mustacheStatement[1].ended) =>
            /\ error' = ErrUnexpectedToken
            /\ FieldsOf(mustacheStatement'[1]) = FieldsOf(mustacheStatement[1])
      ]_vars

\* `(a)` ended the tag statement and the line `a` was fed after it: the call
\* threw and the raw text is still that of the first line
C9_Witness ==
    /\ pc = "tag"
    /\ template = <<"(","a",")",EOL,"a">>
    /\ line = 2
    /\ error = ErrUnexpectedToken
    /\ blockStatement[1].ended
    /\ blockStatement[1].props.jsArg = <<"a">>
    /\ blockStatement[1].props.raw = <<"(","a",")">>

\* `{{a}}` ended the mustache statement and the line `a` was fed after it
C9_WitnessMustache ==
    /\ pc = "mustache"
    /\ template = <<"{","{","a","}","}",EOL,"a">>
    /\ line = 2
    /\ error = ErrUnexpectedToken
    /\ mustacheStatement[1].ended
    /\ mustacheStatement[1].props.raw = <<"{","{","a","}","}">>

-----------------------------------------------------------------------------
(* C10 *)

\* the paren depth of the statement st before it reads place i of the line:
\* the first `(` a statement that has not started reads is its opening one
DepthBefore(st, text, i) ==
    IF st.started
    THEN st.internalParens + Count("(", text, i - 1) - Count(")", text, i - 1)
    ELSE IF Count("(", text, i - 1) > 0
    THEN Count("(", text, i - 1) - 1 - Count(")", text, i - 1)
    ELSE 0 - Count(")", text, i - 1)

\* the places of the line where the statement st reads a `)` at depth zero
ClosingPlaces(st, text) ==
    {i \in 1..Len(text) : text[i] = ")" /\ DepthBefore(st, text, i) = 0}

\* C10: when a seekable tag statement reads its closing `)`, a `)` at paren
\* depth zero, and at least one character of the fed line comes after it,
\* feed() throws and the ended flag stays false.
C10_CharsAfterClosing ==
    [][(/\ pc = "tag"
        /\ Len(lines) > 0
        /\ blockStatement[1].seekable
        /\ ~blockStatement[1].ended
        /\ ClosingPlaces(blockStatement[1], Head(lines)) # {}
        /\ Min(ClosingPlaces(blockStatement[1], Head(lines))) < Len(Head(lines)))
       =>
        /\ error' = ErrNewLine
        /\ ~blockStatement'[1].ended
      ]_vars

\* `(a) ` was fed: a blank comes after the closing `)`, the call threw and
\* the statement, started, has not ended
C10_Witness ==
    /\ pc = "tag"
    /\ template = <<"(","a",")"," ">>
    /\ line = 1
    /\ error = ErrNewLine
    /\ blockStatement[1].seekable
    /\ blockStatement[1].started
    /\ ~blockStatement[1].ended

-----------------------------------------------------------------------------
(* C11 *)

\* the line holds a `)` that no `(` of the line comes before
ClosesBeforeOpening(text) ==
    \E i \in 1..Len(text) :
        text[i] = ")" /\ \A j \in 1..(i - 1) : text[j] # "("

\* C11: when a seekable tag statement that has read no `(` yet reads a `)`,
\* feed() throws and the statement does not become ended.
C11_ClosingBeforeOpening ==
    [][(/\ pc = "tag"
        /\ Len(lines) > 0
        /\ blockStatement[1].seekable
        /\ ~blockStatement[1].started
        /\ ~blockStatement[1].ended
        /\ \A k \in 1..line : \A j \in 1..Len(InputLines[k]) : InputLines[k][j] # "("
        /\ ClosesBeforeOpening(Head(lines)))
       =>
        /\ error' \in {ErrWrap, ErrNewLine}
        /\ ~blockStatement'[1].ended
        /\ ~blockStatement'[1].started
      ]_vars

\* the line `a)` was fed to a seekable tag statement: the call threw, asking
\* for the statement to be wrapped inside (), and the statement has neither
\* started nor ended
C11_Witness ==
    /\ pc = "tag"
    /\ template = <<"a", ")">>
    /\ line = 1
    /\ error = ErrWrap
    /\ blockStatement[1].seekable
    /\ ~blockStatement[1].started
    /\ ~blockStatement[1].ended

-----------------------------------------------------------------------------
(* C12 *)

\* the trimmed line is `@` + the name of a non-seekable tag of the table,
\* and what follows the name, if anything, is no word character
StartsNonSeekableTag(l) ==
    \E n \in DOMAIN tagsDef :
        /\ ~tagsDef[n].seekable
        /\ IsPrefix(<<"@">> \o n, trim(l))
        /\ (Len(trim(l)) > Len(n) + 1 => trim(l)[Len(n) + 2] \notin WordChars)

\* the statement took the whole of the text, trimmed, for its name, and has
\* started and ended with no argument
TookWholeLine(st, text) ==
    /\ st.props.name = trim(text)
    /\ st.started
    /\ st.ended
    /\ st.props.jsArg = <<>>

\* the node of the tag the step emitted: the block pushed on the stack, or
\* the node before the Newline node appended last
EmittedTagNode ==
    IF Len(openedTags') > Len(openedTags)
    THEN openedTags'[Len(openedTags')]
    ELSE Container(openedTags', tokens')[Len(Container(openedTags', tokens')) - 1]

\* one call of feed() on a non-seekable tag statement
NonSeekableFeed ==
    (/\ pc = "tag"
     /\ Len(lines) > 0
     /\ ~blockStatement[1].seekable
     /\ ~blockStatement[1].ended)
    =>
     /\ error' = NoError
     /\ TookWholeLine(blockStatement'[1], Head(lines))

\* the tokenizer reads the line of a non-seekable tag: the statement is gone
\* at once, into a node of that name, or into the error thrown when the name
\* it took is no key of the table
NonSeekableLine ==
    (/\ AtLine
     /\ blockStatement = <<>>
     /\ mustacheStatement = <<>>
     /\ StartsNonSeekableTag(Head(lines)))
    =>
     \/ /\ error' = NoError
        /\ blockStatement' = <<>>
        /\ EmittedTagNode.type = "block"
        /\ EmittedTagNode.properties.name = Tail(trim(Head(lines)))
        /\ EmittedTagNode.properties.jsArg = <<>>
        /\ EmittedTagNode.lineno = line + 1
     \/ /\ error' = ErrTypeError
        /\ pc' = "thrown"
        /\ TookWholeLine(blockStatement'[1], Tail(trim(Head(lines))))

\* no non-seekable tag statement is open
NoOpenNonSeekable ==
    (blockStatement # <<>> /\ ~blockStatement[1].seekable /\ pc # "tag") =>
        /\ blockStatement[1].started
        /\ blockStatement[1].ended
        /\ pc = "thrown"

\* C12: one call of feed() on a non-seekable tag statement, whatever
\* parentheses the line holds, sets name to the whole line trimmed, sets
\* started and ended and leaves jsArg empty; so the tokenizer never keeps a
\* non-seekable tag statement open from one line to the next.
C12_NonSeekable ==
    /\ [][NonSeekableFeed /\ NonSeekableLine]_vars
    /\ []NoOpenNonSeekable

\* ` (a) ` was fed to a non-seekable tag statement: the name is `(a)`, the
\* statement has started and ended, there is no argument
C12_Witness ==
    /\ pc = "tag"
    /\ template = <<" ","(","a",")"," ">>
    /\ line = 1
    /\ error = NoError
    /\ ~blockStatement[1].seekable
    /\ TookWholeLine(blockStatement[1], <<"(","a",")">>)

\* `@else` was read by the tokenizer after `@if(x)`: the node of the tag is
\* a child of the block and no statement is open
C12_WitnessLine ==
    /\ pc = "loop"
    /\ InputLines = <<L_if, L_else, L_endif>>
    /\ line = 2
    /\ blockStatement = <<>>
    /\ Len(openedTags) = 1
    /\ Shapes(openedTags[1].children) = <<<<"newline">>, <<"block">>, <<"newline">>>>
    /\ openedTags[1].children[2].properties.name = <<"e","l","s","e">>

-----------------------------------------------------------------------------
(* C13 *)

\* the trimmed line is a backslash, `@` and the name of a tag of the table;
\* what follows the name, if anything, is no word character
EscapedTagLine(l) ==
    \E n \in DOMAIN tagsDef :
        /\ IsPrefix(<<"\\", "@">> \o n, trim(l))
        /\ (Len(trim(l)) > Len(n) + 2 => trim(l)[Len(n) + 3] \notin WordChars)

\* the place of the first character of the line that is no whitespace
FirstInk(l) == Min({i \in 1..Len(l) : ~whitespace(l[i])})

\* the line without the character at place p
Without(l, p) == [i \in 1..(Len(l) - 1) |-> IF i < p THEN l[i] ELSE l[i + 1]]

\* C13: a line whose trimmed text starts with a backslash followed by `@`
\* and the name of a known tag is emitted as one Raw node, whose value is the
\* line without that backslash, the leading whitespace kept, followed by one
\* Newline node; no tag statement is opened and the stack is unchanged.
C13_EscapedTag ==
    [][(/\ AtLine
        /\ blockStatement = <<>>
        /\ mustacheStatement = <<>>
        /\ EscapedTagLine(Head(lines)))
       =>
        /\ error' = NoError
        /\ blockStatement' = <<>>
        /\ mustacheStatement' = <<>>
        /\ openedTags' # openedTags => Len(openedTags) > 0
        /\ Appends(<<[type |-> "raw", lineno |-> line + 1,
                      value |-> Without(Head(lines), FirstInk(Head(lines)))],
                     [type |-> "newline", lineno |-> line + 1]>>)
      ]_vars

\* ` \@if(x)` was read inside the block `@if(x)`: it is the Raw node
\* ` @if(x)` of the block, which is still the one block of the stack
C13_Witness ==
    /\ InputLines = <<L_if, L_escIf>>
    /\ line = 2
    /\ error = NoError
    /\ blockStatement = <<>>
    /\ tokens = <<>>
    /\ Len(openedTags) = 1
    /\ openedTags[1].children =
           <<[type |-> "newline", lineno |-> 1],
             [type |-> "raw", lineno |-> 2,
              value |-> <<" ","@","i","f","(","x",")">>],
             [type |-> "newline", lineno |-> 2]>>

-----------------------------------------------------------------------------
(* C14 *)

\* the word that follows the `@` the trimmed line starts with, <<>> if the
\* line starts otherwise
AtWord(l) ==
    IF trim(l) # <<>> /\ Head(trim(l)) = "@" THEN wordPrefix(Tail(trim(l)))
    ELSE <<>>

\* the line starts with `@word`, and word is no key of the tag table
StartsWithUnknownWord(l) ==
    AtWord(l) # <<>> /\ AtWord(l) \notin DOMAIN tagsDef

\* the step did with the line what the rules after the tag rule do with a
\* text: closing tag, mustache, plain Raw
ClassifiedAsText ==
    /\ LeavesAs(classifyText([Tk EXCEPT !.line = line + 1], Head(lines), <<>>))
    /\ PlainText(openedTags, Head(lines)) =>
           Appends(<<[type |-> "raw", lineno |-> line + 1, value |-> Head(lines)],
                     [type |-> "newline", lineno |-> line + 1]>>)

C14_NotInherited ==
    [][(/\ AtLine
        /\ blockStatement = <<>>
        /\ mustacheStatement = <<>>
        /\ StartsWithUnknownWord(Head(lines))
        /\ AtWord(Head(lines)) \notin Object_prototype)
       =>
        /\ error' = NoError
        /\ blockStatement' = <<>>
        /\ ClassifiedAsText
      ]_vars

\* `@constructor` was read: the root list holds a Block node of that name
C14_InheritedIsTag ==
    /\ InputLines = <<L_inherited>>
    /\ line = 1
    /\ error = NoError
    /\ Shapes(tokens) = <<<<"block">>, <<"newline">>>>
    /\ tokens[1].properties.name = Tail(L_inherited)

-----------------------------------------------------------------------------
(* C15 *)

\* the text of the nodes in document order: the value of a Raw node, the raw
\* text of a Mustache node, a line break for a Newline node, and for a Block
\* node the text of its children
RECURSIVE Reconstruct(_)
Reconstruct(nodes) ==
    IF nodes = <<>> THEN <<>>
    ELSE (IF Head(nodes).type = "raw" THEN Head(nodes).value
          ELSE IF Head(nodes).type = "mustache" THEN Head(nodes).properties.raw
          ELSE IF Head(nodes).type = "newline" THEN <<EOL>>
          ELSE Reconstruct(Head(nodes).children))
         \o Reconstruct(Tail(nodes))

\* parse() has returned
Parsed == pc = "done" /\ error = NoError

\* the text, trimmed, starts with `@` or with a backslash and `@`
StartsWithAt(text) ==
    IsPrefix(<<"@">>, trim(text)) \/ IsPrefix(<<"\\", "@">>, trim(text))

\* no line, and no part of a line that follows `}}`, starts with `@` or `\@`
NoAtLine ==
    \A i \in 1..Len(InputLines) : \A k \in 1..Len(InputLines[i]) :
        AfterMustache(InputLines[i], k) =>
            ~StartsWithAt(SubSeq(InputLines[i], k, Len(InputLines[i])))

\* C15 as stated: for every template that parse() consumes without error,
\* the values of the Raw nodes and the raw texts of the Mustache nodes in
\* document order, with a line break for every Newline node, are the text of
\* the template.
C15_AsStated ==
    Parsed => Reconstruct(tokens) = template

\* C15, amended: for every template that parse() consumes without error and
\* in which no line, and no part of a line that follows `}}`, starts after
\* trimming with `@` or `\@`, the values of the Raw nodes and the raw texts of
\* the Mustache nodes in document order, with a line break for every Newline
\* node, are the text of the template followed by one line break.
C15_RoundTrip ==
    (Parsed /\ NoAtLine) =>
        /\ openedTags = <<>>
        /\ Reconstruct(tokens) = template \o <<EOL>>

\* `a{{{ b`, `c }}}` and `Hi {{ u }}!` were parsed: a mustache statement of
\* two lines and one with text on both sides give the template back, with a
\* line break after it
C15_Witness ==
    /\ Parsed
    /\ InputLines = <<L_mOpen, L_mClose, L_hello>>
    /\ Len(tokens) = 7
    /\ Reconstruct(tokens) = L_mOpen \o <<EOL>> \o L_mClose \o <<EOL>> \o L_hello \o <<EOL>>

-----------------------------------------------------------------------------
(* C16 *)

\* the tokenizer takes a step of parse(): a line, or the end of the input
ParseStep == pc = "loop"

\* the stack lost its top in the step
Popped == Len(openedTags') = Len(openedTags) - 1

\* the nodes that were in the list are in it as they were, at their places
KeepsNodes(old, new) == IsPrefix(old, new)

\* C16: nodes are appended only to the children of the block on top of the
\* stack, or to the root list when the stack is empty: the nodes a list holds
\* (a popped block, a non-block tag node among them) stay in it as they are,
\* a block under the top of the stack does not change before the blocks over
\* it are popped, and the root list does not change while a block is open.
C16_AppendOnlyToTop ==
    [][ParseStep =>
        /\ Len(openedTags') >= Len(openedTags) - 1
        /\ KeepsNodes(tokens, tokens')
        /\ tokens' # tokens =>
               \/ Len(openedTags) = 0
               \/ Len(openedTags) = 1 /\ Popped
        /\ \A i \in 1..Len(openedTags) :
               i <= Len(openedTags') =>
                   /\ BlockHead(openedTags'[i]) = BlockHead(openedTags[i])
                   /\ KeepsNodes(openedTags[i].children, openedTags'[i].children)
        /\ \A i \in 1..(Len(openedTags) - 1) :
               (i < Len(openedTags) - 1 \/ ~Popped) => openedTags'[i] = openedTags[i]
        /\ Popped =>
               /\ PopsTheTop(openedTags, tokens, openedTags', tokens')
               /\ KeepsNodes(Container(SubSeq(openedTags, 1, Len(openedTags) - 1), tokens),
                             Container(openedTags', tokens'))
      ]_vars

\* `@if(x)`, ` @each(x)` and `Hi {{ u }}!` were read: the four nodes of the
\* third line are children of the block `each`, on top of the stack; the
\* block `if` under it and the root list are as they were
C16_Witness ==
    /\ InputLines = <<L_if, L_each, L_hello>>
    /\ line = 3
    /\ error = NoError
    /\ tokens = <<>>
    /\ Len(openedTags) = 2
    /\ openedTags[1].children = <<[type |-> "newline", lineno |-> 1]>>
    /\ Shapes(openedTags[2].children) =
           <<<<"newline">>, <<"raw", <<"H","i"," ">>>>, <<"mustache">>,
             <<"raw", <<"!">>>>, <<"newline">>>>

-----------------------------------------------------------------------------
(* C17 *)

\* the kind and the line number of a node
Mark(node) == [type |-> node.type, lineno |-> node.lineno]

\* the nodes of a list in document order, a block before its children
RECURSIVE DocOrder(_)
DocOrder(nodes) ==
    IF nodes = <<>> THEN <<>>
    ELSE <<Mark(Head(nodes))>>
         \o (IF Head(nodes).type = "block" THEN DocOrder(Head(nodes).children)
             ELSE <<>>)
         \o DocOrder(Tail(nodes))

\* the open blocks of the stack ot from the i-th on, each with the nodes it
\* holds, in document order
RECURSIVE OpenDocOrder(_, _)
OpenDocOrder(ot, i) ==
    IF i > Len(ot) THEN <<>>
    ELSE <<Mark(ot[i])>> \o DocOrder(ot[i].children) \o OpenDocOrder(ot, i + 1)

\* every node made so far, in document order: those of the root list, then
\* the open blocks, each the last node of the one before
Document(tks, ot) == DocOrder(tks) \o OpenDocOrder(ot, 1)

\* the line the statement open before the step started on, or the line of
\* the step
StartOfOpen ==
    IF blockStatement # <<>> THEN blockStatement[1].startPosition
    ELSE IF mustacheStatement # <<>> THEN mustacheStatement[1].startPosition
    ELSE line'

\* the j-th of the nodes new made in the step is a node of the statement that
\* was open before the step: its Block or Mustache node, the first of new, or
\* the second after the Raw node of textLeft
OfOpenStatement(new, j) ==
    /\ blockStatement # <<>> \/ mustacheStatement # <<>>
    /\ \/ j = 1 /\ new[1].type \in {"block", "mustache"}
       \/ j = 1 /\ new[1].type = "raw" /\ Len(new) > 1 /\ new[2].type = "mustache"
       \/ j = 2 /\ new[1].type = "raw" /\ new[2].type = "mustache"

\* the line numbers of the nodes new made in the step
NewLinenos(new) ==
    \A j \in 1..Len(new) :
        new[j].lineno = IF OfOpenStatement(new, j) THEN StartOfOpen ELSE line'

\* the line numbers are those of lines read, and go up in document order
LinenosInOrder(doc) ==
    /\ \A j \in 1..Len(doc) : doc[j].lineno \in 1..Len(InputLines)
    /\ \A j \in 1..Len(doc) : doc[j].lineno <= line
    /\ \A j \in 1..(Len(doc) - 1) : doc[j].lineno <= doc[j + 1].lineno

\* C17: the lineno of every node is the number, from 1, of an input line:
\* Block and Mustache nodes and the Raw node of textLeft carry the line their
\* statement started on (a statement is given the line it is created on),
\* other Raw nodes and the Newline nodes the line processed when they are
\* made; so the line numbers never go down in the order the nodes are made
\* in, which is the document order.
C17_Linenos ==
    /\ [](pc \in {"loop", "thrown", "done"} =>
              LinenosInOrder(Document(tokens, openedTags)))
    /\ [][ParseStep =>
            /\ IsPrefix(Document(tokens, openedTags), Document(tokens', openedTags'))
            /\ NewLinenos(SubSeq(Document(tokens', openedTags'),
                                 Len(Document(tokens, openedTags)) + 1,
                                 Len(Document(tokens', openedTags'))))
            /\ (blockStatement = <<>> /\ blockStatement' # <<>>) =>
                   blockStatement'[1].startPosition = line'
            /\ (mustacheStatement = <<>> /\ mustacheStatement' # <<>>) =>
                   mustacheStatement'[1].startPosition = line'
          ]_vars

\* `a{{{ b`, `c }}}` and `@if(x)` were read: the Raw node of `a` and the
\* Mustache node have the number of the first line, the Newline node after
\* them that of the second, the block and its Newline node that of the third
C17_Witness ==
    /\ InputLines = <<L_mOpen, L_mClose, L_if>>
    /\ line = 3
    /\ error = NoError
    /\ Document(tokens, openedTags) =
           <<[type |-> "raw", lineno |-> 1], [type |-> "mustache", lineno |-> 1],
             [type |-> "newline", lineno |-> 2], [type |-> "block", lineno |-> 3],
             [type |-> "newline", lineno |-> 3]>>

-----------------------------------------------------------------------------
(* C18 *)

\* the Block and Mustache nodes of a list and of the blocks in it
RECURSIVE StatementNodes(_)
StatementNodes(nodes) ==
    IF nodes = <<>> THEN {}
    ELSE (IF Head(nodes).type = "block"
          THEN {Head(nodes)} \cup StatementNodes(Head(nodes).children)
          ELSE IF Head(nodes).type = "mustache" THEN {Head(nodes)}
          ELSE {})
         \cup StatementNodes(Tail(nodes))

\* the Block and Mustache nodes parse() has made
EmittedStatementNodes ==
    StatementNodes(tokens) \cup StatementNodes(openedTags)

\* the lines ls fed one after the other to the tag statement st, up to the
\* first call that throws
RECURSIVE Tag_feedAll(_, _)
Tag_feedAllNext(r, ls) ==
    IF r.err # NoError THEN r ELSE Tag_feedAll(r.st, ls)

Tag_feedAll(st, ls) ==
    IF ls = <<>> THEN [st |-> st, err |-> NoError]
    ELSE Tag_feedAllNext(Tag_feed(st, Head(ls)), Tail(ls))

\* the same for a mustache statement
RECURSIVE Mustache_feedAll(_, _)
Mustache_feedAllNext(r, ls) ==
    IF r.err # NoError THEN r ELSE Mustache_feedAll(r.st, ls)

Mustache_feedAll(st, ls) ==
    IF ls = <<>> THEN [st |-> st, err |-> NoError]
    ELSE Mustache_feedAllNext(Mustache_feed(st, Head(ls)), Tail(ls))

\* the lines of the raw text of a Block node with the `@` put back: the
\* tokenizer gives a tag statement its first line trimmed and without the `@`
SigilBack(raw) ==
    <<TRIM_TAG_REGEX_replace(trim(Head(split(<<"@">> \o raw))))>>
    \o Tail(split(<<"@">> \o raw))

\* a fresh statement of the kind of the node, fed the raw text of the node
Reparsed(node) ==
    IF node.type = "block"
    THEN Tag_feedAll(NewTagStatement(1, tagsDefGet(node.properties.name)[1].seekable),
                     SigilBack(node.properties.raw))
    ELSE Mustache_feedAll(NewMustacheStatement(1), split(node.properties.raw))

\* the statement fed the raw text of the node has ended with the name and
\* the jsArg of the node
SameAgain(node) ==
    /\ Reparsed(node).err = NoError
    /\ Reparsed(node).st.ended
    /\ Reparsed(node).st.props.name = node.properties.name
    /\ Reparsed(node).st.props.jsArg = node.properties.jsArg

\* C18 as stated: for every Mustache or Block node that parse() emits, a
\* fresh statement of the same kind fed the raw text of the node, split on
\* line breaks, the `@` put back for a tag, ends with the name and the jsArg
\* of the node.
C18_AsStated ==
    \A node \in EmittedStatementNodes : SameAgain(node)

\* it holds of the Block nodes, and of the Mustache nodes of statements with
\* no brace before their opening delimiter
C18_BlockNodes ==
    \A node \in EmittedStatementNodes :
        (node.type = "block" \/ \A i \in 1..Len(InputLines) : InputLines[i] # L_strayLeft)
            => SameAgain(node)

\* `}{{ {a}}` was read: the Mustache node has the argument ` {a`, and a fresh
\* statement fed its raw text `{{ {a}}` does not end
C18_NotSameAgain ==
    /\ InputLines = <<L_strayLeft>>
    /\ line = 1
    /\ Shapes(tokens) = <<<<"raw", <<"}">>>>, <<"mustache">>, <<"newline">>>>
    /\ tokens[2].properties.jsArg = <<" ","{","a">>
    /\ tokens[2].properties.raw = <<"{","{"," ","{","a","}","}">>
    /\ ~Reparsed(tokens[2]).st.ended

\* `@if(`, `u  v` and `)` were read: the raw text of the block holds three
\* lines, and a fresh statement fed them ends with the same name and jsArg
C18_ReparsedBlock ==
    /\ InputLines = <<L_ifOpen, L_arg, L_close>>
    /\ line = 3
    /\ Len(openedTags) = 1
    /\ Len(SigilBack(openedTags[1].properties.raw)) = 3
    /\ SameAgain(openedTags[1])

-----------------------------------------------------------------------------
(* C19 *)

\* parse() is between two calls of processText, or has returned
BetweenCalls == pc \in {"loop", "done"}

\* at most one slot holds a statement, and that statement has not ended (a
\* mustache statement has started as well)
OneOpenStatement ==
    /\ blockStatement = <<>> \/ mustacheStatement = <<>>
    /\ blockStatement # <<>> => ~blockStatement[1].ended
    /\ mustacheStatement # <<>> =>
           mustacheStatement[1].started /\ ~mustacheStatement[1].ended
    /\ pc = "done" => blockStatement = <<>> /\ mustacheStatement = <<>>

\* after the step the slot holds a statement created in the step
NewStatement(slot) == slot # <<>> /\ slot[1].startPosition = line'

\* the statement is an older one, that was in the slot before the step
SameStatement(old, slot) ==
    /\ old # <<>>
    /\ slot # <<>>
    /\ slot[1].startPosition = old[1].startPosition
    /\ slot[1].startPosition < line'

\* C19: between two calls of processText made by parse() at most one of the
\* two slots holds a statement, and a statement in a slot is still seeking;
\* a statement is created only when both slots are empty: none while a tag
\* statement is open, and none while a mustache statement is open unless
\* that one ends on the line.
C19_OneStatement ==
    /\ [](BetweenCalls => OneOpenStatement)
    /\ [][AtLine =>
            /\ blockStatement' # <<>> =>
                   NewStatement(blockStatement')
                   \/ SameStatement(blockStatement, blockStatement')
            /\ mustacheStatement' # <<>> =>
                   NewStatement(mustacheStatement')
                   \/ SameStatement(mustacheStatement, mustacheStatement')
            /\ (NewStatement(blockStatement') \/ NewStatement(mustacheStatement')) =>
                   /\ blockStatement = <<>>
                   /\ mustacheStatement # <<>> =>
                          MustacheFed.err = NoError /\ MustacheFed.st.ended
          ]_vars

\* `a{{{ b`, `c }}}` and `@if(` were read: the mustache statement of the
\* first two lines is gone, and the tag statement of the third is open
C19_Witness ==
    /\ pc = "loop"
    /\ InputLines = <<L_mOpen, L_mClose, L_ifOpen>>
    /\ line = 3
    /\ mustacheStatement = <<>>
    /\ blockStatement # <<>>
    /\ blockStatement[1].startPosition = 3
    /\ blockStatement[1].started
    /\ ~blockStatement[1].ended

-----------------------------------------------------------------------------
(* C20 *)

\* a tag statement or a mustache statement is open
StatementOpen == blockStatement # <<>> \/ mustacheStatement # <<>>

\* the open statement fed the whole line that parse() reads next
OpenFed ==
    IF blockStatement # <<>> THEN Tag_feed(blockStatement[1], Head(lines))
    ELSE Mustache_feed(mustacheStatement[1], Head(lines))

\* the statement took the line and has not ended
StaysOpen == OpenFed.err = NoError /\ ~OpenFed.st.ended

\* C20: while a tag statement or a mustache statement is open, the next line
\* is fed to that statement whatever it contains: the statement in the slot
\* is the one fed the whole line, its text grows by a line break and the line
\* as written, and as long as the statement has not ended no node is emitted,
\* the stack of open tags does not change and the other slot stays empty. A
\* line the statement refuses stops parse() with the statement's error and
\* emits nothing either.
C20_LinesGoToOpenStatement ==
    [][(AtLine /\ StatementOpen) =>
        /\ StaysOpen =>
               /\ pc' = "loop"
               /\ error' = NoError
               /\ tokens' = tokens
               /\ openedTags' = openedTags
               /\ blockStatement # <<>> =>
                      blockStatement' = <<OpenFed.st>> /\ mustacheStatement' = <<>>
               /\ mustacheStatement # <<>> =>
                      mustacheStatement' = <<OpenFed.st>> /\ blockStatement' = <<>>
               /\ OpenStatementText' = OpenStatementText \o <<EOL>> \o Head(lines)
        /\ OpenFed.err # NoError =>
               /\ pc' = "thrown"
               /\ error' = OpenFed.err
               /\ tokens' = tokens
               /\ openedTags' = openedTags
      ]_vars

\* `@if(`, `@endif` and `a{{{ b` were read: the tag statement of the first
\* line took the closing tag and the start of a mustache, nothing was emitted
C20_Witness ==
    /\ pc = "loop"
    /\ InputLines = <<L_ifOpen, L_endif, L_mOpen>>
    /\ line = 3
    /\ tokens = <<>>
    /\ openedTags = <<>>
    /\ mustacheStatement = <<>>
    /\ blockStatement # <<>>
    /\ blockStatement[1].startPosition = 1
    /\ blockStatement[1].props.raw = join(<<Tail(L_ifOpen), L_endif, L_mOpen>>)

\* `a{{{ b`, `@if(x)` and ` \@if(x)` were read: the mustache statement of
\* the first line took the tag and the escaped tag
C20_WitnessMustache ==
    /\ pc = "loop"
    /\ InputLines = <<L_mOpen, L_if, L_escIf>>
    /\ line = 3
    /\ tokens = <<>>
    /\ openedTags = <<>>
    /\ blockStatement = <<>>
    /\ mustacheStatement # <<>>
    /\ mustacheStatement[1].startPosition = 1
    /\ mustacheStatement[1].props.textLeft \o mustacheStatement[1].props.raw
           = join(<<L_mOpen, L_if, L_escIf>>)

-----------------------------------------------------------------------------
(* C21 *)

\* feed() is about to be called for the first time, with a line that holds
\* an opening delimiter
FirstFeedOpens ==
    /\ FeedsUnstarted
    /\ line = 0
    /\ Openers(Head(lines)) # {}

\* the line from its first opening delimiter on
FromOpener(text) == SubSeq(text, Min(Openers(text)), Len(text))

\* the line before its first opening delimiter
BeforeOpener(text) == SubSeq(text, 1, Min(Openers(text)) - 1)

\* a new statement fed the line from its first opening delimiter on
FedFromOpener(text) == Mustache_feed(NewMustacheStatement(1), FromOpener(text))

\* the statement st ends where the statement fed the line from its delimiter
\* on ends: both ended or both not, with the same argument and the same text
\* on the right
EndsAsFromOpener(st, text) ==
    /\ st.ended = FedFromOpener(text).st.ended
    /\ st.props.jsArg = FedFromOpener(text).st.props.jsArg
    /\ st.props.textRight = FedFromOpener(text).st.props.textRight

\* C21 as stated: the brace counter counts only the braces inside the
\* delimiters of the statement: what the line holds before the opening `{{`,
\* braces included, does not change whether the statement ends, nor where.
C21_AsStated ==
    [][FirstFeedOpens =>
           /\ error' = NoError
           /\ EndsAsFromOpener(mustacheStatement'[1], Head(lines))
      ]_vars

\* it holds of the lines with no brace before the opening delimiter
C21_NoBraceBefore ==
    [][(FirstFeedOpens /\ \A i \in 1..Len(BeforeOpener(Head(lines))) :
                              BeforeOpener(Head(lines))[i] \notin {"{", "}"}) =>
           /\ error' = NoError
           /\ EndsAsFromOpener(mustacheStatement'[1], Head(lines))
      ]_vars

\* `}{{a}}` was fed: the statement has not ended, the counter is below zero
C21_StrayLeftNotEnded ==
    /\ pc = "mustache"
    /\ template = <<"}","{","{","a","}","}">>
    /\ line = 1
    /\ mustacheStatement[1].started
    /\ ~mustacheStatement[1].ended
    /\ mustacheStatement[1].internalBraces < 0

\* `a{{a}}` was fed: the statement ended at its `}}`
C21_TextLeftEnded ==
    /\ pc = "mustache"
    /\ template = <<"a","{","{","a","}","}">>
    /\ line = 1
    /\ mustacheStatement[1].ended
    /\ mustacheStatement[1].props.textLeft = <<"a">>
    /\ mustacheStatement[1].props.jsArg = <<"a">>

-----------------------------------------------------------------------------
(* C22 *)

\* what the line holds after its first opening delimiter
BodyOfLine(text) == AfterOpener(text, Min(Openers(text)))

\* the name the first opening delimiter of the line gives
NameOfLine(text) == OpenerName(text, Min(Openers(text)))

\* the places of the body where a `}` stands at depth zero with no full
\* closing run
StrayPlaces(body, name) ==
    {i \in 1..Len(body) :
        /\ body[i] = "}"
        /\ BraceDepth(body, i - 1) = 0
        /\ ~FullRunAt(body, i, name)}

\* the line has a stray `}` before any full closing run at depth zero
StrayBeforeClose(text) ==
    \E i \in StrayPlaces(BodyOfLine(text), NameOfLine(text)) :
        \A c \in ClosePlaces(BodyOfLine(text), NameOfLine(text)) : i < c

\* the statement read the body up to the closing run at place c, the stray
\* `}` included, and ended there
EndedAtPlace(st, body, c) ==
    /\ st.ended
    /\ st.props.jsArg = Collapse(SubSeq(body, 1, c - 1))

\* the statement read the whole body, the stray `}` included, and goes on
ReadWholeBody(st, body) ==
    /\ ~st.ended
    /\ st.internalProps # <<>>
    /\ st.internalProps[1].jsArg.chars = Collapse(body)

\* C22 as stated: a `}` read by a started mustache statement at brace depth
\* zero with no full closing run after it does not end the statement and is
\* appended to jsArg; the statement still ends at a later full closing run
\* (`}}` for mustache, `}}}` for emustache) read at depth zero.
C22_AsStated ==
    [][(FirstFeedOpens /\ StrayBeforeClose(Head(lines))) =>
           /\ error' = NoError
           /\ ClosePlaces(BodyOfLine(Head(lines)), NameOfLine(Head(lines))) # {} =>
                  EndedAtPlace(mustacheStatement'[1], BodyOfLine(Head(lines)),
                               Min(ClosePlaces(BodyOfLine(Head(lines)),
                                               NameOfLine(Head(lines)))))
           /\ ClosePlaces(BodyOfLine(Head(lines)), NameOfLine(Head(lines))) = {} =>
                  ReadWholeBody(mustacheStatement'[1], BodyOfLine(Head(lines)))
      ]_vars

\* `{{}a}}` was fed: the stray `}` is in the argument, and the `}}` after it
\* did not end the statement
C22_StrayPreventsClosing ==
    /\ pc = "mustache"
    /\ template = <<"{","{","}","a","}","}">>
    /\ line = 1
    /\ mustacheStatement[1].started
    /\ ~mustacheStatement[1].ended
    /\ mustacheStatement[1].internalProps[1].jsArg.chars = <<"}","a","}","}">>
    /\ mustacheStatement[1].internalBraces = -3

-----------------------------------------------------------------------------
(* C23 *)

\* the characters the statement has read: the lines fed so far, one after
\* the other (the line breaks are not fed)
RECURSIVE Concat(_)
Concat(ls) == IF ls = <<>> THEN <<>> ELSE Head(ls) \o Concat(Tail(ls))

ReadSoFar == Concat(SubSeq(InputLines, 1, line))

HasParen(txt) == \E i \in 1..Len(txt) : txt[i] = "("

\* what txt holds before its first `(`
BeforeParen(txt) == SubSeq(txt, 1, Len(txt) - Len(AfterParen(txt)) - 1)

NotWhitespace(ch) == ~whitespace(ch)

\* no call of feed() has thrown: no `)` was read before the first `(`, and
\* nothing after the `)` that balances the first `(`
ReadCleanly ==
    /\ error = NoError
    /\ ~ClosesBeforeOpening(ReadSoFar)
    /\ HasParen(ReadSoFar) =>
           \/ Closers(AfterParen(ReadSoFar)) = {}
           \/ Min(Closers(AfterParen(ReadSoFar))) = Len(AfterParen(ReadSoFar))

\* the parens of txt left open
OpenParens(txt) == Count("(", txt, Len(txt)) - Count(")", txt, Len(txt))

C23_WitnessNested ==
    /\ pc = "tag"
    /\ template = <<" ","a","(","(",")">>
    /\ line = 1
    /\ error = NoError
    /\ blockStatement[1].seekable
    /\ blockStatement[1].started
    /\ ~blockStatement[1].ended
    /\ blockStatement[1].props.name = <<"a">>
    /\ blockStatement[1].internalParens = 0

-----------------------------------------------------------------------------
(* C24 *)

\* parse() reads a line of a known seekable tag, the first one or a
\* following one
ReadsTagLine ==
    /\ AtLine
    /\ blockStatement # <<>> \/ mustacheStatement = <<>>
    /\ OpensSeekableTag(InputLines[StartLine])

\* what the tag has after its opening `(`, the line read next included
ArgWithLine == WrittenArg(StartLine, line + 1)

\* what the line read next holds after the closing `)`
AfterClosing ==
    SubSeq(ArgWithLine, Min(Closers(ArgWithLine)) + 1, Len(ArgWithLine))

\* C24 as stated: the error for what follows a tag statement is thrown
\* exactly when the characters left on the line after the closing `)` hold a
\* character that is no whitespace; a closing `)` followed by whitespace
\* only, on the first line of the tag or on a following one, ends the
\* statement without error.
C24_AsStated ==
    [][(ReadsTagLine /\ Closers(ArgWithLine) # {}) =>
           /\ error' = ErrNewLine <=> trim(AfterClosing) # <<>>
           /\ trim(AfterClosing) = <<>> =>
                  /\ error' = NoError
                  /\ blockStatement' = <<>>
      ]_vars

\* it holds of the line the tag starts on, which is fed trimmed
C24_FirstLine ==
    [][(ReadsTagLine /\ StartLine = line + 1 /\ Closers(ArgWithLine) # {}) =>
           /\ error' = ErrNewLine <=> trim(AfterClosing) # <<>>
           /\ trim(AfterClosing) = <<>> =>
                  /\ error' = NoError
                  /\ blockStatement' = <<>>
      ]_vars

\* on a following line, the error is thrown when any character is left
C24_FollowingLine ==
    [][(ReadsTagLine /\ StartLine < line + 1 /\ Closers(ArgWithLine) # {}) =>
           /\ error' = ErrNewLine <=> AfterClosing # <<>>
           /\ AfterClosing = <<>> =>
                  /\ error' = NoError
                  /\ blockStatement' = <<>>
      ]_vars

\* `@if(` and `) ` were read: the blank after the `)` of the second line
\* made parse() throw
C24_BlankAfterClosing ==
    /\ pc = "thrown"
    /\ InputLines = <<L_ifOpen, L_closeBlank>>
    /\ line = 2
    /\ error = ErrNewLine
    /\ blockStatement # <<>>
    /\ ~blockStatement[1].ended

\* ` @each(x)` was read: the line was fed without the blank around it and
\* the tag is on the stack
C24_FirstLineTrimmed ==
    /\ pc = "loop"
    /\ InputLines = <<L_each>>
    /\ line = 1
    /\ error = NoError
    /\ blockStatement = <<>>
    /\ Len(openedTags) = 1

-----------------------------------------------------------------------------
(* C25 *)

\* C25 as stated: in every state of a tag statement, seeking is true exactly
\* when started is true and ended is false; a statement that has not read a
\* `(` yet is not seeking.
C25_AsStated ==
    pc = "tag" =>
        (Tag_seeking(blockStatement[1]) <=>
            (blockStatement[1].started /\ ~blockStatement[1].ended))

\* what holds instead: a statement never ends without having started, so it
\* is seeking exactly as long as it has not ended, from its construction on
C25_SeekingUntilEnded ==
    pc = "tag" =>
        /\ blockStatement[1].ended => blockStatement[1].started
        /\ Tag_seeking(blockStatement[1]) <=> ~blockStatement[1].ended

\* the line `a` was fed to a seekable statement: it has read no `(`, has not
\* started, and is seeking
C25_UnstartedSeeking ==
    /\ pc = "tag"
    /\ template = <<"a">>
    /\ line = 1
    /\ error = NoError
    /\ blockStatement[1].seekable
    /\ ~blockStatement[1].started
    /\ Tag_seeking(blockStatement[1])

-----------------------------------------------------------------------------
(* C26 *)

\* the trimmed line is an optional backslash, `@`, then at once a word that
\* is a name of the tag table
TagShaped(l) ==
    /\ Unescaped(trim(l)) # <<>>
    /\ Head(Unescaped(trim(l))) = "@"
    /\ wordPrefix(Tail(Unescaped(trim(l)))) \in DOMAIN tagsDef

\* parse() reads a line with no statement open
ClassifiesLine ==
    /\ AtLine
    /\ blockStatement = <<>>
    /\ mustacheStatement = <<>>

\* a tag started on line ln: its statement is open, or its node is on the
\* stack, or in the list nodes are appended to
TagStartedOn(bs, ot, tks, ln) ==
    \/ bs # <<>>
    \/ Len(ot) > 0 /\ ot[Len(ot)].lineno = ln
    \/ \E i \in 1..Len(Container(ot, tks)) :
           /\ Container(ot, tks)[i].type = "block"
           /\ Container(ot, tks)[i].lineno = ln

\* C26 as stated: a line is taken for the start of a tag only if its trimmed
\* text is an optional backslash, then `@`, then at once one or more word
\* characters that form a name of the tag table; no other prefix makes the
\* line a tag, and a tag-shaped text elsewhere than at the start of the
\* trimmed line is no tag.
C26_AsStated ==
    [][(ClassifiesLine /\ ~TagShaped(Head(lines))) =>
           /\ getTag(Head(lines)) = <<>>
           /\ ~TagStartedOn(blockStatement', openedTags', tokens', line + 1)
      ]_vars

\* it holds of the lines that have no `{{`, no `!` after the `@` and no
\* inherited name after it
C26_PlainLines ==
    [][(/\ ClassifiesLine
        /\ ~TagShaped(Head(lines))
        /\ ~ContainsMustache(Head(lines))
        /\ ~StartsWithBangTagName(Head(lines))
        /\ ~StartsWithInheritedName(Head(lines))) =>
           /\ getTag(Head(lines)) = <<>>
           /\ ~TagStartedOn(blockStatement', openedTags', tokens', line + 1)
      ]_vars

\* `@!if(` was read: a tag statement is open
C26_BangIsTag ==
    /\ pc = "loop"
    /\ InputLines = <<L_bang>>
    /\ line = 1
    /\ blockStatement # <<>>
    /\ blockStatement[1].started
    /\ blockStatement[1].props.name = <<"!","i","f">>

\* `{{u}}@if(x)` was read: after the Mustache node, the text on the right
\* started the tag `if`, which is on the stack
C26_TagAfterMustache ==
    /\ pc = "loop"
    /\ InputLines = <<L_mIf>>
    /\ line = 1
    /\ Shapes(tokens) = <<<<"mustache">>>>
    /\ Len(openedTags) = 1
    /\ openedTags[1].properties.name = <<"i","f">>
    /\ openedTags[1].lineno = 1

-----------------------------------------------------------------------------
(* C27 *)

\* parse() reads a line that goes to a tag statement: the one that is open,
\* or a new one for a line that getTag takes for a tag not escaped
FeedsTagLine ==
    /\ AtLine
    /\ \/ blockStatement # <<>>
       \/ /\ mustacheStatement = <<>>
          /\ getTag(Head(lines)) # <<>>
          /\ ~getTag(Head(lines))[1].escaped

\* the statement after it was fed the line, and what the call threw
TagLineFed ==
    IF blockStatement # <<>> THEN Tag_feed(blockStatement[1], Head(lines))
    ELSE Tag_feed(NewTagStatement(line + 1, getTag(Head(lines))[1].seekable),
                  TRIM_TAG_REGEX_replace(trim(Head(lines))))

\* the line ends the statement
EndsTagStatement == TagLineFed.err = NoError /\ TagLineFed.st.ended

\* the definition of the tag has block true
IsBlockTag(name) == tagsDefGet(name) # <<>> /\ tagsDefGet(name)[1].block

\* the Block node of the statement, with its children
BlockNodeOf(st, children) ==
    [type |-> "block", properties |-> st.props, lineno |-> st.startPosition,
     children |-> children]

\* the step left the lists and the stack as they were
NothingEmitted == tokens' = tokens /\ openedTags' = openedTags

\* the step pushed the node of the statement on the stack, the Newline of
\* the line being its first child, and appended nothing to the lists below
PushedOnStack(st) ==
    /\ tokens' = tokens
    /\ openedTags' =
           Append(openedTags,
                  BlockNodeOf(st, <<[type |-> "newline", lineno |-> line + 1]>>))

\* the step appended the node of the statement, without children, and the
\* Newline of the line after it
AppendedToContainer(st) ==
    /\ openedTags' = openedTags \/ SameStack(openedTags, openedTags')
    /\ Len(openedTags) > 0 => tokens' = tokens
    /\ Container(openedTags', tokens') =
           Container(openedTags, tokens) \o
           <<BlockNodeOf(st, <<>>), [type |-> "newline", lineno |-> line + 1]>>

\* C27 as stated: a tag statement is turned into a Block node only once it
\* has ended; then, if the definition of the tag has block true, the node is
\* pushed on the stack of open tags and appended to no list, and the Newline
\* that follows is its first child; otherwise the node is appended to the
\* current container and the Newline follows it there; either way the slot
\* of the open tag statement is cleared.
C27_AsStated ==
    [][FeedsTagLine =>
           /\ (TagLineFed.err = NoError /\ ~TagLineFed.st.ended) =>
                  /\ NothingEmitted
                  /\ blockStatement' = <<TagLineFed.st>>
           /\ EndsTagStatement =>
                  /\ error' = NoError
                  /\ blockStatement' = <<>>
                  /\ IF IsBlockTag(TagLineFed.st.props.name)
                     THEN PushedOnStack(TagLineFed.st)
                     ELSE AppendedToContainer(TagLineFed.st)
      ]_vars

\* it holds of the statements whose name the table answers for
C27_DefinedTags ==
    [][(FeedsTagLine /\ tagsDefGet(TagLineFed.st.props.name) # <<>>) =>
           /\ (TagLineFed.err = NoError /\ ~TagLineFed.st.ended) =>
                  /\ NothingEmitted
                  /\ blockStatement' = <<TagLineFed.st>>
           /\ EndsTagStatement =>
                  /\ error' = NoError
                  /\ blockStatement' = <<>>
                  /\ IF IsBlockTag(TagLineFed.st.props.name)
                     THEN PushedOnStack(TagLineFed.st)
                     ELSE AppendedToContainer(TagLineFed.st)
      ]_vars

\* `@!if(` and `)` were read: the statement named `!if` has ended, nothing
\* was emitted, the statement is still in its slot and parse() threw
C27_EndedNotConverted ==
    /\ pc = "thrown"
    /\ InputLines = <<L_bang, L_close>>
    /\ line = 2
    /\ error = ErrTypeError
    /\ tokens = <<>>
    /\ openedTags = <<>>
    /\ blockStatement # <<>>
    /\ blockStatement[1].ended

\* `@if(x)`, `@set (w` and `)` were read: the block `if` is on the stack and
\* in no list; its children are the Newline of line 1, the node of `set`,
\* which started on line 2, and the Newline of line 3
C27_PushedAndAppended ==
    /\ pc = "loop"
    /\ InputLines = <<L_if, L_setOpen, L_close>>
    /\ line = 3
    /\ tokens = <<>>
    /\ blockStatement = <<>>
    /\ Len(openedTags) = 1
    /\ openedTags[1].properties.name = <<"i","f">>
    /\ Shapes(openedTags[1].children) = <<<<"newline">>, <<"block">>, <<"newline">>>>
    /\ openedTags[1].children[2].properties.name = <<"s","e","t">>
    /\ openedTags[1].children[2].lineno = 2
    /\ openedTags[1].children[3].lineno = 3

-----------------------------------------------------------------------------
(* C28 *)

\* the characters fed to the bucket so far
Fed == SubSeq(template, 1, line)

\* no two whitespace characters stand side by side in txt
NoAdjacentWhitespace(txt) ==
    \A i \in 1..(Len(txt) - 1) : ~(whitespace(txt[i]) /\ whitespace(txt[i + 1]))

\* the places of txt that start a run of whitespace
RunStarts(txt) ==
    {i \in 1..Len(txt) :
        whitespace(txt[i]) /\ (i = 1 \/ ~whitespace(txt[i - 1]))}

\* the characters of txt at the places of the set P, in order
RECURSIVE AtPlaces(_, _, _)
AtPlaces(txt, P, i) ==
    IF i > Len(txt) THEN <<>>
    ELSE IF i \in P THEN <<txt[i]>> \o AtPlaces(txt, P, i + 1)
    ELSE AtPlaces(txt, P, i + 1)

\* the places of txt the policy CONTROLLED keeps: the characters that are no
\* whitespace, and the first character of every run of whitespace
KeptPlaces(txt) ==
    {i \in 1..Len(txt) : ~whitespace(txt[i])} \cup RunStarts(txt)

\* C28: under the policy CONTROLLED, after any sequence of calls of feed()
\* the buffer never holds two whitespace characters side by side: of every
\* run of whitespace characters fed, one call after the other, the first one
\* is kept and no other, a whitespace character fed first is kept, and every
\* other character is kept, in the order fed.
C28_Controlled ==
    (pc = "bucket" /\ charBucket[1].whitespace = "CONTROLLED") =>
        /\ NoAdjacentWhitespace(charBucket[1].chars)
        /\ charBucket[1].chars = AtPlaces(Fed, KeptPlaces(Fed), 1)
        /\ SelectSeq(charBucket[1].chars, NotWhitespace) =
               SelectSeq(Fed, NotWhitespace)
        /\ (Fed # <<>> /\ whitespace(Fed[1])) =>
               (charBucket[1].chars # <<>> /\ charBucket[1].chars[1] = Fed[1])

\* a line break, a blank, `a`, a blank and a line break were fed, one call
\* each: the buffer holds the line break, `a` and the blank
C28_Witness ==
    /\ pc = "bucket"
    /\ charBucket[1].whitespace = "CONTROLLED"
    /\ template = <<EOL, " ", "a", " ", EOL>>
    /\ line = 5
    /\ charBucket[1].chars = <<EOL, "a", " ">>

-----------------------------------------------------------------------------
(* C29 *)

\* what get() returns under the policy, for the characters fed
Accumulated(mode, txt) ==
    IF mode = "ALL" THEN txt
    ELSE IF mode = "NONE" THEN SelectSeq(txt, NotWhitespace)
    ELSE AtPlaces(txt, KeptPlaces(txt), 1)

\* get() was called in the step
CallsGet == pc = "bucket" /\ line' = line

\* C29: for every sequence of characters fed, get() under the policy ALL
\* returns the sequence fed, and under the policy NONE the sequence fed
\* without its whitespace characters, the other characters in their order;
\* get() does not change the buffer.
C29_GetAllNone ==
    /\ [](pc = "bucket" =>
            charBucket[1].chars = Accumulated(charBucket[1].whitespace, Fed))
    /\ [][CallsGet =>
            /\ charBucket' = charBucket
            /\ charBucket[1].whitespace = "ALL" => got' = <<Fed>>
            /\ charBucket[1].whitespace = "NONE" =>
                   got' = <<SelectSeq(Fed, NotWhitespace)>>
         ]_vars

\* a blank, `a`, a line break, `b` and a blank were fed under the policy
\* NONE: get() returned `ab`
C29_Witness ==
    /\ pc = "bucket"
    /\ charBucket[1].whitespace = "NONE"
    /\ template = <<" ", "a", EOL, "b", " ">>
    /\ line = 5
    /\ got = <<<<"a", "b">>>>
    /\ charBucket[1].chars = <<"a", "b">>

\* the same text under the policy ALL: get() returned the text as it was
C29_WitnessAll ==
    /\ pc = "bucket"
    /\ charBucket[1].whitespace = "ALL"
    /\ template = <<" ", "a", EOL, "b", " ">>
    /\ line = 5
    /\ got = <<template>>

-----------------------------------------------------------------------------
(* C30 *)

\* the lines fed to the statement so far
LinesFed == SubSeq(InputLines, 1, line)

\* lines were fed to the tag statement, and it took them all: none came
\* after it had ended
TookLines ==
    /\ pc = "tag"
    /\ line >= 1
    /\ error # ErrUnexpectedToken

\* C30 as stated: after the lines l1..lk were fed to a tag statement, its raw
\* field is l1..lk joined with one line break between two lines, for every
\* k >= 1 and whatever the lines hold, empty lines included.
C30_AsStated ==
    TookLines => blockStatement[1].props.raw = join(LinesFed)

\* it holds when the first line fed is not empty
C30_FirstLineNotEmpty ==
    (TookLines /\ InputLines[1] # <<>>) =>
        blockStatement[1].props.raw = join(LinesFed)

\* an empty line and the line `a` were fed: raw is `a`, with no line break
\* before it
C30_EmptyFirstLineLost ==
    /\ pc = "tag"
    /\ template = <<EOL, "a">>
    /\ line = 2
    /\ error = NoError
    /\ blockStatement[1].props.raw = <<"a">>

\* `a`, an empty line and `a` were fed: raw holds the two line breaks
C30_EmptyLineKept ==
    /\ pc = "tag"
    /\ template = <<"a", EOL, EOL, "a">>
    /\ line = 3
    /\ error = NoError
    /\ blockStatement[1].props.raw = template

-----------------------------------------------------------------------------
(* C31 *)

\* a seekable tag statement that ended, no call of feed() having thrown
EndedCleanly ==
    /\ pc = "tag"
    /\ blockStatement[1].seekable
    /\ line >= 1
    /\ ReadCleanly
    /\ blockStatement[1].ended

\* the argument as the statement read it: what stands between the opening
\* `(` and the `)` that balances it
ArgumentRead ==
    SubSeq(AfterParen(ReadSoFar), 1, Min(Closers(AfterParen(ReadSoFar))) - 1)

-----------------------------------------------------------------------------
(* C32 *)

\* the line read next ends a mustache statement and text follows its closing
\* delimiter
EndsMustacheWithTextRight ==
    /\ ReadsMustache
    /\ MustacheFed.err = NoError
    /\ MustacheFed.st.ended
    /\ MustacheFed.st.props.textRight # <<>>

\* the tokenizer once the nodes of the statement are appended: the same
\* stack of open tags, no statement open, the number of the line being read
AfterMustacheNodes ==
    WithNodes([Tk EXCEPT !.line = line + 1, !.mustacheStatement = <<>>],
              LeftAndMustache(MustacheFed.st))

\* what the call parse() makes for an input line leaves of the tokenizer tk
AsFreshLine(tk, text) == processText(tk, text)

\* the nodes of the list nodes are appended to, after the step
NodesAfter == Container(openedTags', tokens')

\* C32: the text that follows the closing delimiter of a mustache statement,
\* on the line where it ends, is classified as the same text would be as an
\* input line of its own read in the same state of the tokenizer (the same
\* stack of open tags, no statement open, the same line number): it opens a
\* second mustache statement, opens a tag statement, closes the block on top
\* or becomes a Raw node.
C32_TextRightAsLine ==
    [][EndsMustacheWithTextRight =>
           /\ LeavesAs(AsFreshLine(AfterMustacheNodes, MustacheFed.st.props.textRight))
           /\ PlainText(openedTags, MustacheFed.st.props.textRight) =>
                  /\ SameStack(openedTags, openedTags')
                  /\ Shape(NodesAfter[Len(NodesAfter) - 1]) =
                         <<"raw", MustacheFed.st.props.textRight>>
                  /\ Shape(NodesAfter[Len(NodesAfter)]) = <<"newline">>
           /\ (/\ ClosesTop(openedTags, MustacheFed.st.props.textRight)
               /\ getTag(MustacheFed.st.props.textRight) = <<>>) =>
                  /\ Len(openedTags') = Len(openedTags) - 1
                  /\ Shape(NodesAfter[Len(NodesAfter) - 1]) = <<"block">>
                  /\ NodesAfter[Len(NodesAfter) - 1].properties =
                         openedTags[Len(openedTags)].properties
           /\ (/\ getTag(MustacheFed.st.props.textRight) # <<>>
               /\ ~getTag(MustacheFed.st.props.textRight)[1].escaped) =>
                  \/ error' # NoError
                  \/ TagStartedOn(blockStatement', openedTags', tokens', line + 1)
           /\ (/\ getTag(MustacheFed.st.props.textRight) = <<>>
               /\ ~ClosesTop(openedTags, MustacheFed.st.props.textRight)
               /\ ContainsMustache(MustacheFed.st.props.textRight)) =>
                  \/ /\ mustacheStatement' # <<>>
                     /\ mustacheStatement'[1].startPosition = line + 1
                  \/ \E i \in 1..Len(NodesAfter) :
                         /\ i > Len(Container(AfterMustacheNodes.openedTags,
                                              AfterMustacheNodes.tokens))
                         /\ NodesAfter[i].type = "mustache"
      ]_vars

\* `{{u}}{{a` was read: after the Mustache node of the first statement, the
\* text on the right opened a second mustache statement
C32_Witness ==
    /\ pc = "loop"
    /\ InputLines = <<L_mAgain>>
    /\ line = 1
    /\ error = NoError
    /\ Shapes(tokens) = <<<<"mustache">>>>
    /\ mustacheStatement # <<>>
    /\ mustacheStatement[1].started
    /\ ~mustacheStatement[1].ended
    /\ mustacheStatement[1].props.raw = <<"{","{","a">>

\* `@if(x)` and `{{u}}@endif` were read: the text on the right closed the
\* block, which is in the root list with the Mustache node among its children
C32_WitnessClose ==
    /\ pc = "loop"
    /\ InputLines = <<L_if, L_mEndif>>
    /\ line = 2
    /\ error = NoError
    /\ openedTags = <<>>
    /\ Shapes(tokens) = <<<<"block">>, <<"newline">>>>
    /\ Shapes(tokens[1].children) = <<<<"newline">>, <<"mustache">>>>

-----------------------------------------------------------------------------
(* C33 *)

\* parse() has left: it returned, or an error went through it
Left == pc \in {"done", "thrown"}

\* the lines parse() still has to read: what is left of the template before
\* it is split, the local `lines` afterwards
LinesLeft == IF pc = "constructed" THEN Len(InputLines) ELSE Len(lines)

\* C33: parse() terminates on every finite template, normally or with the
\* first error thrown: every turn of its loop takes one line off the lines
\* left and reads it to its end, the text handed back for a second
\* classification after a mustache is shorter than the line it comes from,
\* and after an error nothing more is read.
C33_Terminates ==
    /\ (pc = "constructed") ~> Left
    /\ [][ /\ Next <=> (parseStep /\ <<pc, lines>>' # <<pc, lines>>)
           /\ AtLine =>
               /\ lines' = Tail(lines)
               /\ LinesLeft' = LinesLeft - 1
               /\ line' = line + 1
           /\ (ReadsMustache /\ MustacheFed.err = NoError /\ MustacheFed.st.ended) =>
               Len(MustacheFed.st.props.textRight) < Len(Head(lines))
           /\ Left => UNCHANGED vars
           /\ pc' = "thrown" => error' # NoError
           /\ pc' = "done" => (error' = NoError /\ lines' = <<>>)
         ]_vars

\* `Hi {{ u }}!`, `{{u}}@if(x)` and `{{u}}@endif` were read, each with a text
\* after its mustache classified in its turn, and parse() returned
C33_Witness ==
    /\ pc = "done"
    /\ InputLines = <<L_hello, L_mIf, L_mEndif>>
    /\ line = 3
    /\ lines = <<>>
    /\ error = NoError
    /\ openedTags = <<>>
    /\ Shapes(tokens) = <<<<"raw", <<"H","i"," ">>>>, <<"mustache">>,
                          <<"raw", <<"!">>>>, <<"newline">>, <<"mustache">>,
                          <<"block">>, <<"newline">>>>

\* `@if(`, `) ` and `Hi {{ u }}!` were given: parse() threw on the second
\* line and the third was not read
C33_WitnessThrown ==
    /\ pc = "thrown"
    /\ InputLines = <<L_ifOpen, L_closeBlank, L_hello>>
    /\ line = 2
    /\ lines = <<L_hello>>
    /\ error = ErrNewLine

-----------------------------------------------------------------------------
(* C34 *)

\* the identifier that makes a line a tag: the word TAG_REGEX takes after
\* `@` or `@!`
IdentifierOf(l) == TAG_REGEX(trim(l)).g2

\* the first line of the tag statement that reads Head(lines)
FirstLineOfTag == InputLines[StartLine]

\* C34 as stated: whenever a tag statement that getTag accepted at the start
\* of a line ends, the name it collected is a key of the tag table and is the
\* identifier that made its first line a tag, and the lookup of its block
\* flag raises no error.
C34_AsStated ==
    [][(FeedsTagLine /\ getTag(FirstLineOfTag) # <<>>) =>
           /\ EndsTagStatement =>
                  /\ TagLineFed.st.props.name \in DOMAIN tagsDef
                  /\ TagLineFed.st.props.name = IdentifierOf(FirstLineOfTag)
           /\ error' # ErrTypeError
      ]_vars

\* the steps of ` @else (`, of `@!if(` then `)`, and of `@constructor`: the
\* names collected are `else (`, `!if` and `constructor`
C34_CollectedNames ==
    [][(FeedsTagLine /\ EndsTagStatement) =>
           /\ FirstLineOfTag = L_elseArg =>
                  /\ TagLineFed.st.props.name = <<"e","l","s","e"," ","(">>
                  /\ error' = ErrTypeError
           /\ (FirstLineOfTag = L_bang /\ Head(lines) = L_close) =>
                  /\ TagLineFed.st.props.name = <<"!","i","f">>
                  /\ error' = ErrTypeError
           /\ FirstLineOfTag = L_inherited =>
                  /\ TagLineFed.st.props.name = IdentifierOf(L_inherited)
                  /\ TagLineFed.st.props.name \notin DOMAIN tagsDef
                  /\ error' = NoError
      ]_vars

\* it holds of the lines `@name(...)` whose name is a key of the table
C34_PlainTags ==
    [][(FeedsTagLine /\ EndsTagStatement /\ getTag(FirstLineOfTag) # <<>>
           /\ \E n \in DOMAIN tagsDef :
                  /\ tagsDef[n].seekable
                  /\ IsPrefix(<<"@">> \o n \o <<"(">>, trim(FirstLineOfTag))) =>
           /\ TagLineFed.st.props.name \in DOMAIN tagsDef
           /\ TagLineFed.st.props.name = IdentifierOf(FirstLineOfTag)
           /\ error' # ErrTypeError
      ]_vars

\* ` @else (` was read: parse() left with a TypeError
C34_WitnessElse ==
    /\ InputLines = <<L_elseArg>>
    /\ pc = "thrown"
    /\ error = ErrTypeError

\* `@!if(` then `)` were read: parse() left with a TypeError
C34_WitnessBang ==
    /\ InputLines = <<L_bang, L_close>>
    /\ pc = "thrown"
    /\ line = 2
    /\ error = ErrTypeError

-----------------------------------------------------------------------------
(* C35 *)

\* node is one of nodes or is under one of them
RECURSIVE ReachableFrom(_, _)
ReachableFrom(nodes, node) ==
    \E i \in 1..Len(nodes) :
        \/ nodes[i] = node
        \/ /\ nodes[i].type = "block"
           /\ ReachableFrom(nodes[i].children, node)

\* C35 as stated: once parse() has returned without an error, every node that
\* was made is reachable from the root list: a block that was opened and never
\* closed is in the output with every node consumed inside it, and the stack
\* of open tags holds no node the output lacks.
C35_AsStated ==
    (pc = "done" /\ error = NoError) =>
        /\ \A i \in 1..Len(openedTags) :
               /\ ReachableFrom(tokens, openedTags[i])
               /\ \A j \in 1..Len(openedTags[i].children) :
                      ReachableFrom(tokens, openedTags[i].children[j])
        /\ DocOrder(tokens) = Document(tokens, openedTags)

\* after `@if(x)` and `u  v` parse() returns with an empty output: the block
\* is on the stack of open tags with its three children, and nowhere else
C35_UnclosedBlockLost ==
    (pc = "done" /\ InputLines = <<L_if, L_arg>>) =>
        /\ error = NoError
        /\ tokens = <<>>
        /\ Len(openedTags) = 1
        /\ openedTags[1].properties.name = <<"i","f">>
        /\ Shapes(openedTags[1].children) =
               <<<<"newline">>, <<"raw", L_arg>>, <<"newline">>>>

\* parse() has returned from `@if(x)`, `u  v`
C35_WitnessLost ==
    /\ pc = "done"
    /\ InputLines = <<L_if, L_arg>>
    /\ tokens = <<>>
    /\ Len(openedTags) = 1

\* what returns with every block closed has every node under the root list
C35_ClosedBlocks ==
    (pc = "done" /\ openedTags = <<>>) =>
        /\ blockStatement = <<>>
        /\ mustacheStatement = <<>>
        /\ DocOrder(tokens) = Document(tokens, openedTags)

\* parse() never takes a node off the stack at its end: the stack at the
\* return is the stack after the last line
C35_StackKeptAtEnd ==
    [][(pc = "loop" /\ Len(lines) = 0) =>
           /\ Len(openedTags') = Len(openedTags)
           /\ Len(openedTags) > 0 => tokens' = tokens
      ]_vars

-----------------------------------------------------------------------------
(* C36 *)

\* the Newline nodes among all the nodes made so far
IsNewline(mark) == mark.type = "newline"

Newlines(tks, ot) == Len(SelectSeq(Document(tks, ot), IsNewline))

\* the tokenizer as the constructor leaves it
FreshTokenizer ==
    [tokens |-> <<>>, openedTags |-> <<>>, blockStatement |-> <<>>,
     mustacheStatement |-> <<>>, line |-> 0, error |-> NoError]

\* the tokenizer after the loop of parse() has read the first k of the lines
\* ls, or when it threw before
ReadNext(tk, ls, k) ==
    IF tk.error # NoError THEN tk
    ELSE processText([tk EXCEPT !.line = k], ls[k])

RECURSIVE ReadTo(_, _)
ReadTo(ls, k) ==
    IF k = 0 THEN FreshTokenizer ELSE ReadNext(ReadTo(ls, k - 1), ls, k)

\* a statement is open in the tokenizer tk
OpenIn(tk) == tk.blockStatement # <<>> \/ tk.mustacheStatement # <<>>

\* the lines among the first k of ls that parse() fed to a statement that was
\* open already
ContinuationLines(ls, k) == {i \in 1..k : OpenIn(ReadTo(ls, i - 1))}

\* C36: the call of processText that parse() makes for an input line emits at
\* most one Newline node, and none exactly when it returns with a statement
\* left open; with the flush at the end of the input, the Newline nodes made
\* by parse() are as many as the input lines less the lines fed as
\* continuation lines to a statement already open.
C36_NewlinePerLine ==
    /\ [][(AtLine /\ error' = NoError) =>
              /\ Newlines(tokens', openedTags') - Newlines(tokens, openedTags)
                     \in {0, 1}
              /\ Newlines(tokens', openedTags') = Newlines(tokens, openedTags)
                     <=> StatementOpen'
          ]_vars
    /\ []((pc = "loop" /\ error = NoError) =>
              /\ Tk = ReadTo(InputLines, line)
              /\ Newlines(tokens, openedTags) =
                     line - Cardinality(ContinuationLines(InputLines, line))
                          - (IF StatementOpen THEN 1 ELSE 0))
    /\ []((pc = "done" /\ error = NoError) =>
              Newlines(tokens, openedTags) =
                  Len(InputLines)
                      - Cardinality(ContinuationLines(InputLines, Len(InputLines))))

\* `@if(`, `)` and `a{{{ b` were read and parse() returned: the second line
\* was a continuation line, the tag gave one Newline and the flush of the
\* mustache left open gave the other
C36_Witness ==
    /\ pc = "done"
    /\ error = NoError
    /\ InputLines = <<L_ifOpen, L_close, L_mOpen>>
    /\ ContinuationLines(InputLines, 3) = {2}
    /\ Newlines(tokens, openedTags) = 2
    /\ Shapes(openedTags[1].children) =
           <<<<"newline">>, <<"raw", L_mOpen>>, <<"newline">>>>

\* `{{u}}{{a` was read: the first mustache ended, the second is left open and
\* the call made no Newline
C36_WitnessOpen ==
    /\ pc = "loop"
    /\ InputLines = <<L_mAgain>>
    /\ line = 1
    /\ mustacheStatement # <<>>
    /\ Shapes(tokens) = <<<<"mustache">>>>
    /\ Newlines(tokens, openedTags) = 0

-----------------------------------------------------------------------------
(* C37 *)

\* the lines fed so far as the source has them, line breaks included
WrittenSoFar == join(SubSeq(InputLines, 1, line))

\* the argument of the tag as the source has it: what stands between the
\* opening `(` and the `)` that balances it, line breaks included
WrittenArgument ==
    SubSeq(AfterParen(WrittenSoFar), 1, Min(Closers(AfterParen(WrittenSoFar))) - 1)

\* the argument of the ended mustache statement st as the source has it: what
\* stands between its delimiters, line breaks included
MustacheArgument(st) ==
    SubSeq(BodyOf(st), 1, Len(BodyOf(st)) - Len(CloserOf(st.props.name)))

\* txt with a space for every line break
BreaksAsSpaces(txt) == [i \in 1..Len(txt) |-> IF txt[i] = EOL THEN " " ELSE txt[i]]

\* a line break stands in txt
HasBreak(txt) == \E i \in 1..Len(txt) : txt[i] = EOL

\* a mustache statement that ended, no call of feed() having failed
EndedMustache == FedMustache /\ mustacheStatement[1].ended

C37_WitnessMustache ==
    /\ EndedMustache
    /\ template = <<"{","{","a",EOL,"a","}","}">>
    /\ line = 2
    /\ MustacheArgument(mustacheStatement[1]) = <<"a",EOL,"a">>
    /\ mustacheStatement[1].props.jsArg = <<"a","a">>

-----------------------------------------------------------------------------
(* C38 *)

\* the text the statement holds: textLeft, raw and textRight end to end
HeldBy(st) == st.props.textLeft \o st.props.raw \o st.props.textRight

\* the lines of the template from the one the open mustache statement started
\* on to the last one read, as the source has them
SourceOfOpen ==
    join(SubSeq(InputLines, mustacheStatement[1].startPosition, line))

\* parse() is at its end with a mustache statement left open
FlushesMustache == pc = "loop" /\ Len(lines) = 0 /\ mustacheStatement # <<>>

\* C38 as stated: for a mustache statement that has started, after every feed
\* the lines fed, joined by line breaks, are textLeft + raw + textRight,
\* textRight being empty while the statement has not ended: no character fed
\* is lost or duplicated.
C38_AsStated ==
    (FedMustache /\ line >= 1 /\ error = NoError) =>
        /\ HeldBy(mustacheStatement[1]) = WrittenSoFar
        /\ ~mustacheStatement[1].ended =>
               mustacheStatement[1].props.textRight = <<>>

\* it holds of the statements that found their opening delimiter in the first
\* line they were fed
C38_StartedAtOnce ==
    (FedMustache /\ line >= 1 /\ error = NoError /\ Openers(InputLines[1]) # {}) =>
        /\ HeldBy(mustacheStatement[1]) = WrittenSoFar
        /\ ~mustacheStatement[1].ended =>
               mustacheStatement[1].props.textRight = <<>>

\* an empty line, `{{` and an empty line were fed: the second call threw
\* after it set started, the third returned, and the statement holds `{{`
\* and one line break of the two
C38_WitnessLost ==
    /\ FedMustache
    /\ template = <<EOL, "{", "{", EOL>>
    /\ line = 3
    /\ error = NoError
    /\ HeldBy(mustacheStatement[1]) = <<"{", "{", EOL>>

\* in the tokenizer, which makes a mustache statement for a text that holds
\* `{{`: the open statement holds the source from its start on, and the Raw
\* node made at the end of the input for a mustache statement left open holds
\* its source lines as they are
C38_FlushedAsWritten ==
    /\ []((pc = "loop" /\ mustacheStatement # <<>>) =>
              /\ mustacheStatement[1].started
              /\ ~mustacheStatement[1].ended
              /\ mustacheStatement[1].props.textRight = <<>>
              /\ IsSuffix(HeldBy(mustacheStatement[1]), SourceOfOpen)
              /\ ~MustacheBefore(mustacheStatement[1].startPosition) =>
                     HeldBy(mustacheStatement[1]) = SourceOfOpen)
    /\ [][FlushesMustache =>
              /\ Len(NodesAfter) >= 2
              /\ NodesAfter[Len(NodesAfter) - 1] =
                     [type |-> "raw", value |-> HeldBy(mustacheStatement[1]),
                      lineno |-> line]
              /\ NodesAfter[Len(NodesAfter)].type = "newline"
              /\ mustacheStatement' = <<>>
          ]_vars

\* `a{{a}}a` was fed: textLeft is `a`, raw is `{{a}}`, textRight is `a`
C38_Witness ==
    /\ FedMustache
    /\ error = NoError
    /\ line = 1
    /\ template = <<"a","{","{","a","}","}","a">>
    /\ mustacheStatement[1].ended
    /\ mustacheStatement[1].props.textLeft = <<"a">>
    /\ mustacheStatement[1].props.raw = <<"{","{","a","}","}">>
    /\ mustacheStatement[1].props.textRight = <<"a">>

\* `a{{a`, an empty line and `a` were fed: raw holds the two line breaks
C38_WitnessLines ==
    /\ FedMustache
    /\ error = NoError
    /\ line = 3
    /\ template = <<"a","{","{","a",EOL,EOL,"a">>
    /\ ~mustacheStatement[1].ended
    /\ mustacheStatement[1].props.textLeft = <<"a">>
    /\ mustacheStatement[1].props.raw = <<"{","{","a",EOL,EOL,"a">>

\* `a{{{ b` and `u  v` were read and parse() returned: the Raw node holds
\* the two lines
C38_WitnessFlush ==
    /\ pc = "done"
    /\ InputLines = <<L_mOpen, L_arg>>
    /\ mustacheStatement = <<>>
    /\ Shapes(tokens) = <<<<"raw", join(<<L_mOpen, L_arg>>)>>, <<"newline">>>>

-----------------------------------------------------------------------------
(* C39 *)

\* feed() is about to be called on a seekable tag statement that has not
\* ended, with a line that holds a `)` at paren depth zero
FeedsClosingParen ==
    /\ pc = "tag"
    /\ Len(lines) > 0
    /\ blockStatement[1].seekable
    /\ ~blockStatement[1].ended
    /\ ClosingPlaces(blockStatement[1], Head(lines)) # {}

\* C39: the paren counter of a tag statement is never negative: a `)` read
\* while the counter is zero ends the statement or makes feed() throw, and
\* is not counted.
C39_ParensNeverNegative ==
    /\ [](blockStatement # <<>> => blockStatement[1].internalParens >= 0)
    /\ [][FeedsClosingParen =>
              /\ blockStatement'[1].internalParens = 0
              /\ \/ error' = NoError /\ blockStatement'[1].ended
                 \/ error' \in {ErrNewLine, ErrWrap} /\ ~blockStatement'[1].ended
          ]_vars

\* `(())` was fed: the inner `)` took the counter back to zero and the outer
\* one ended the statement
C39_Witness ==
    /\ pc = "tag"
    /\ blockStatement[1].seekable
    /\ template = <<"(","(",")",")">>
    /\ line = 1
    /\ error = NoError
    /\ blockStatement[1].ended
    /\ blockStatement[1].internalParens = 0
    /\ blockStatement[1].props.jsArg = <<"(",")">>

\* `)` was fed to a statement that had not started: feed() threw and the
\* counter is zero
C39_WitnessWrap ==
    /\ pc = "tag"
    /\ blockStatement[1].seekable
    /\ template = <<")">>
    /\ line = 1
    /\ error = ErrWrap
    /\ ~blockStatement[1].started
    /\ blockStatement[1].internalParens = 0

\* in the tokenizer `@if(` then `) ` were read: the second line threw with
\* the counter at zero
C39_WitnessTokenizer ==
    /\ pc = "thrown"
    /\ InputLines = <<L_ifOpen, L_closeBlank>>
    /\ error = ErrNewLine
    /\ blockStatement # <<>>
    /\ blockStatement[1].internalParens = 0

=============================================================================
